---- MODULE Spec2Model ----
(***************************************************************************)
(* A model of the acitracker backend: the calibration endpoints of         *)
(* calibration.py over the tables of db.py, and the must-reads ranking of  *)
(* main.py, the artifact cache of main.py in front of the Drive folder,    *)
(* and the embedding calls of embeddings.py with the backfill script.      *)
(*                                                                         *)
(* Optional values (Python None / SQL NULL) are tuples: <<>> is None and   *)
(* <<x>> is the value x.  CalibrationItem.final_relevancy_score is a Float *)
(* column; a score is the integer score * Scale, so that a score strictly  *)
(* between two whole numbers is representable.  JSON values of the tag map *)
(* are their JSON texts ("true" is the boolean, "\"true\"" the string).    *)
(* Display columns (title, source, dates, summary, mode, run_id) and the   *)
(* timestamp columns take part in no decision and are left out.            *)
(*                                                                         *)
(* A record constructor lists its fields in the order TLC sorts them (the  *)
(* order in which the names first occur in this module), so that a request *)
(* value shared by TLC's workers is never reordered in place.              *)
(***************************************************************************)
EXTENDS Integers, Sequences, FiniteSets, TLC

VARIABLES
    calibration_items,   \* table calibration_items: set of rows
    human_evaluations,   \* table human_evaluations: set of rows
    ACITRACK_API_KEY,    \* the configured shared secret, None when unset
    pc,                  \* per worker: the submit request it holds between its checks and its commit
    resp,                \* the last completed request and its response
    loop,                \* an evaluator's session: the items next has served, the item in hand, the replies to its ratings
    rank,                \* the last call of filter_and_sort_must_reads: inputs and output
    rerank,              \* a further call of filter_and_sort_must_reads: its items and output
    norm,                \* normalize_must_read_item: a raw record, its result, the result of a second pass
    embtext,             \* build_embedding_text: its arguments and its result
    emb,                 \* a call of generate_embedding / generate_embeddings_batch under @retry
    backfill,            \* a run of process_batch: its items, its stage, its counters
    publication_embeddings,  \* table publication_embeddings: set of rows
    artifact_cache,      \* _artifact_cache of main.py: filename -> cached entry
    drive,               \* the Drive folder: its files and how its API answers
    now,                 \* datetime.now(), in minutes
    artifact,            \* the last call of get_artifact_with_cache and its response
    resolve,             \* a call of resolve_and_get_output_file: its inputs, the Drive it reads, its result
    chunk,               \* a call of chunk_texts_for_batching: its arguments and its result
    must                 \* a request GET /api/must-reads: its parameters, the file it is served from, its reply

vars == <<calibration_items, human_evaluations, ACITRACK_API_KEY, pc, resp, loop, rank, rerank, norm,
          embtext, emb, backfill, publication_embeddings, artifact_cache, drive, now, artifact,
          resolve, chunk, must>>

\* the state of main.py, which the calibration endpoints leave alone
driveVars == <<artifact_cache, drive, now, artifact, resolve, must>>
mainVars == <<rank, rerank, norm, driveVars>>
\* the state of embeddings.py and of the backfill script
embVars == <<embtext, emb, backfill, publication_embeddings, chunk>>
\* the state of calibration.py
calibVars == <<calibration_items, human_evaluations, ACITRACK_API_KEY, pc, resp, loop>>

None == <<>>
Some(x) == <<x>>

\* ------------------------------------------------------------------ bounds
Scale == 2            \* score units per point
MaxSeedLen == 2       \* longest publication_ids list of a seed request
MaxLen == 3           \* longest item list handed to filter_and_sort_must_reads

\* ------------------------------------------------------------------ JSON tags
JTrue == "true"
JFalse == "false"
JStrTrue == "\"true\""
JStrBreast == "\"breast\""

\* tags ->> 'gold': the text of a JSON value (a string loses its quotes)
astext(v) ==
    CASE v = JStrTrue -> "true"
      [] v = JStrBreast -> "breast"
      [] OTHER -> v

\* dict.update: keys of t override, the other keys of old are kept
dict_update(old, t) ==
    [k \in (DOMAIN old) \cup (DOMAIN t) |-> IF k \in DOMAIN t THEN t[k] ELSE old[k]]

EmptyDict == [k \in {} |-> JTrue]

\* Python truthiness of an Optional[dict]
Truthy(tags) == tags # None /\ DOMAIN tags[1] # {}

\* CalibrationItem.tags.op("->")("gold").astext == "true"; NULL tags or a missing key give NULL
is_gold(item) ==
    /\ item.tags # None
    /\ "gold" \in DOMAIN item.tags[1]
    /\ astext(item.tags[1]["gold"]) = "true"

\* ------------------------------------------------------------------ external tables
\* tri_model_events / publications as the scoring pipeline left them:
\* the final relevancy score fetch_publication_details finds per publication
Pubs == {"p1", "p2", "p3", "p4", "p5", "p6", "p7"}

fetch_publication_details(pub_id) ==
    CASE pub_id = "p1" -> Some(10 * Scale)
      [] pub_id = "p2" -> Some(30 * Scale)
      [] pub_id = "p3" -> Some(100 * Scale)
      [] pub_id = "p4" -> Some(100 * Scale + 1)
      [] pub_id = "p5" -> None
      [] pub_id = "p6" -> Some(-5 * Scale)
      [] OTHER -> Some(150 * Scale)

\* ------------------------------------------------------------------ authentication
\* "not x" for an Optional[str]: None and the empty string are falsy
falsy(x) == x = None \/ x = Some("")

\* a dependency that answers 401 to every key it does not accept
verify_api_key_401(api_key) ==
    IF falsy(ACITRACK_API_KEY) THEN 0
    ELSE IF api_key # ACITRACK_API_KEY THEN 401
    ELSE 0

\* verify_api_key: 0 lets the request through
verify_api_key(api_key) ==
    IF falsy(ACITRACK_API_KEY) THEN 0
    ELSE IF falsy(api_key) THEN 401
    ELSE IF api_key # ACITRACK_API_KEY THEN 403
    ELSE 0

\* ------------------------------------------------------------------ the ORM session
\* uuid.uuid4 for a new row: a value no row carries yet
new_item_id(db, pub_id) ==
    <<pub_id, Cardinality({r \in db : r.publication_id = pub_id})>>

\* db.query(CalibrationItem).filter(publication_id == pub_id).first(); the session was
\* made with autoflush=False, so rows added in this request are not seen
query_item_by_pub(pub_id) ==
    LET found == {r \in calibration_items : r.publication_id = pub_id}
    IN IF found = {} THEN None ELSE Some(CHOOSE r \in found : TRUE)

\* CalibrationItem.tags is a plain JSONB column (no MutableDict): the unit of work
\* writes the attribute only if its value differs from the value it replaced, and a
\* dict updated in place and assigned back is the very object it replaced
tags_written(m) == ~m.aliased /\ m.tags # m.committed

\* one pass of the loop of seed_calibration_items over publication_ids[i..]
RECURSIVE seed_loop(_, _, _, _)
seed_loop(ids, tags, i, s) ==
    IF i > Len(ids) THEN s
    ELSE
        LET pub_id == ids[i]
            existing == query_item_by_pub(pub_id)
        IN IF existing # None
           THEN LET id == existing[1].id
                    first == id \notin DOMAIN s.mem
                    cur == IF first THEN existing[1].tags ELSE s.mem[id].tags
                    existing_tags == IF Truthy(cur) THEN cur[1] ELSE EmptyDict
                    touched ==
                        [tags |-> Some(dict_update(existing_tags, tags[1])),
                         aliased |-> IF first THEN Truthy(cur) ELSE s.mem[id].aliased,
                         committed |-> IF first THEN cur ELSE s.mem[id].committed]
                    mem2 == IF Truthy(tags)
                            THEN [k \in (DOMAIN s.mem) \cup {id} |->
                                     IF k = id THEN touched ELSE s.mem[k]]
                            ELSE s.mem
                IN seed_loop(ids, tags, i + 1,
                             [s EXCEPT !.mem = mem2, !.skipped_existing = @ + 1])
           ELSE LET item == [tags |-> tags,
                             publication_id |-> pub_id,
                             final_relevancy_score |-> fetch_publication_details(pub_id)]
                IN seed_loop(ids, tags, i + 1,
                             [s EXCEPT !.new = Append(@, item), !.seeded = @ + 1])

\* the unique index on calibration_items.publication_id, checked as the INSERTs are flushed
items_unique_ok(db, new) ==
    /\ \A i \in 1..Len(new) : \A r \in db : r.publication_id # new[i].publication_id
    /\ \A i, j \in 1..Len(new) : i # j => new[i].publication_id # new[j].publication_id

RECURSIVE insert_items(_, _, _)
insert_items(db, new, i) ==
    IF i > Len(new) THEN db
    ELSE insert_items(
            db \cup {[tags |-> new[i].tags,
                      publication_id |-> new[i].publication_id,
                      id |-> new_item_id(db, new[i].publication_id),
                      final_relevancy_score |-> new[i].final_relevancy_score]},
            new, i + 1)

\* db.commit() of the seed request: UPDATE the rows whose tags count as changed, INSERT the new rows
flush_items(s) ==
    LET updated == {IF r.id \in DOMAIN s.mem /\ tags_written(s.mem[r.id])
                    THEN [r EXCEPT !.tags = s.mem[r.id].tags]
                    ELSE r : r \in calibration_items}
    IN insert_items(updated, s.new, 1)

EmptySession == [mem |-> [k \in {} |-> None], skipped_existing |-> 0, new |-> <<>>, seeded |-> 0]

\* POST /calibration/items/seed
seed_calibration_items(req) ==
    LET auth == verify_api_key(req.api_key)
        s == seed_loop(req.publication_ids, req.tags, 1, EmptySession)
    IN /\ IF auth # 0
          THEN /\ resp' = [req |-> req, op |-> "seed", status |-> auth, body |-> None]
               /\ UNCHANGED calibration_items
          ELSE IF Len(req.publication_ids) < 1
          THEN /\ resp' = [req |-> req, op |-> "seed", status |-> 422, body |-> None]
               /\ UNCHANGED calibration_items
          ELSE IF ~items_unique_ok(calibration_items, s.new)
          THEN \* IntegrityError out of db.commit(): nothing catches it, the transaction is lost
               /\ resp' = [req |-> req, op |-> "seed", status |-> 500, body |-> None]
               /\ UNCHANGED calibration_items
          ELSE /\ calibration_items' = flush_items(s)
               /\ resp' = [req |-> req, op |-> "seed", status |-> 200,
                            body |-> Some([skipped_existing |-> s.skipped_existing,
                                           seeded |-> s.seeded])]
       /\ UNCHANGED <<human_evaluations, ACITRACK_API_KEY, pc, loop, mainVars, embVars>>

\* ------------------------------------------------------------------ GET /calibration/next
Strategies == {"balanced", "gold_first", "random"}

\* the subquery rated_ids: items this evaluator has an evaluation for
\* a subquery that finds no evaluation
rated_ids_none(evaluator) ==
    {}

rated_ids(evaluator) ==
    {h.calibration_item_id : h \in {e \in human_evaluations : e.evaluator = evaluator}}

\* a base query that forgets the rated_ids subquery
base_query_all(evaluator) ==
    calibration_items

\* base_query: ~CalibrationItem.id.in_(rated_ids)
base_query(evaluator) ==
    {c \in calibration_items : c.id \notin rated_ids(evaluator)}

buckets == << <<0, 20>>, <<20, 40>>, <<40, 60>>, <<60, 80>>, <<80, 101>> >>

\* final_relevancy_score >= low AND final_relevancy_score < high; NULL satisfies neither
\* a bucket filter that takes every scored item
bucket_query_scored(base, low, high) ==
    {c \in base : c.final_relevancy_score # None}

bucket_query(base, low, high) ==
    {c \in base : /\ c.final_relevancy_score # None
                  /\ c.final_relevancy_score[1] >= low * Scale
                  /\ c.final_relevancy_score[1] < high * Scale}

\* a loop that takes the rows of all buckets at once
first_bucket_any(base, i) ==
    bucket_query(base, buckets[1][1], buckets[Len(buckets)][2])

\* the for loop over buckets: the rows of the first bucket that has any
RECURSIVE first_bucket(_, _)
first_bucket(base, i) ==
    IF i > Len(buckets) THEN {}
    ELSE LET cands == bucket_query(base, buckets[i][1], buckets[i][2])
         IN IF cands # {} THEN cands ELSE first_bucket(base, i + 1)

\* a balanced strategy without its last fallback
balanced_candidates_nofallback(base) ==
    LET inBucket == first_bucket(base, 1)
        noScore == {c \in base : c.final_relevancy_score = None}
    IN IF inBucket # {} THEN inBucket ELSE noScore

balanced_candidates(base) ==
    LET inBucket == first_bucket(base, 1)
        noScore == {c \in base : c.final_relevancy_score = None}
    IN IF inBucket # {} THEN inBucket
       ELSE IF noScore # {} THEN noScore
       ELSE base

\* a gold_first strategy with no preference
gold_first_candidates_any(base) ==
    base

gold_first_candidates(base) ==
    LET gold == {c \in base : is_gold(c)}
    IN IF gold # {} THEN gold ELSE base

\* the rows order_by(func.random()).first() can deliver under the strategy
next_candidates(evaluator, strategy) ==
    CASE strategy = "gold_first" -> gold_first_candidates(base_query(evaluator))
      [] strategy = "balanced" -> balanced_candidates(base_query(evaluator))
      [] OTHER -> base_query(evaluator)

\* str(item.id), and UUID(text), which fails on text that is no UUID
uuid_str(u) == <<"uuid", u>>
UUID(text) == IF text[1] = "uuid" THEN Some(text[2]) ELSE None

CalibrationItemResponse(item) ==
    [tags |-> item.tags,
     publication_id |-> item.publication_id,
     final_relevancy_score |-> item.final_relevancy_score,
     calibration_item_id |-> uuid_str(item.id)]

\* the reply of get_next_item; order_by(func.random()).first() is any of the candidates
get_next_item_reply(req) ==
    LET auth == verify_api_key(req.api_key)
        cands == next_candidates(req.evaluator, req.strategy)
    IN IF auth # 0
       THEN resp' = [req |-> req, op |-> "next", status |-> auth, body |-> None]
       ELSE IF req.evaluator = "" \/ req.strategy \notin Strategies
       THEN resp' = [req |-> req, op |-> "next", status |-> 422, body |-> None]
       ELSE IF cands = {}
       THEN resp' = [req |-> req, op |-> "next", status |-> 200, body |-> None]
       ELSE \E item \in cands :
               resp' = [req |-> req, op |-> "next", status |-> 200,
                        body |-> Some(CalibrationItemResponse(item))]

get_next_item(req) ==
    /\ get_next_item_reply(req)
    /\ UNCHANGED <<calibration_items, human_evaluations, ACITRACK_API_KEY, pc, loop, mainVars, embVars>>

\* ------------------------------------------------------------------ POST /calibration/submit
Confidences == {None, Some("low"), Some("medium"), Some("high")}

\* a request model without min_length on reasoning
submit_valid_noreason(req) ==
    /\ req.evaluator # ""
    /\ req.human_score >= 0 /\ req.human_score <= 100
    /\ req.confidence \in Confidences

\* SubmitEvaluationRequest: the field constraints pydantic enforces
submit_valid(req) ==
    /\ req.evaluator # ""
    /\ req.human_score >= 0 /\ req.human_score <= 100
    /\ req.reasoning # ""
    /\ req.confidence \in Confidences

\* a handler without the existing-evaluation check
submit_check_noexisting(req) ==
    LET auth == verify_api_key(req.api_key)
        item_uuid == UUID(req.calibration_item_id)
    IN IF auth # 0 THEN auth
       ELSE IF ~submit_valid(req) THEN 422
       ELSE IF item_uuid = None THEN 400
       ELSE IF {c \in calibration_items : c.id = item_uuid[1]} = {} THEN 404
       ELSE 0

\* everything submit_evaluation does before it adds the row: 0 lets the request through
submit_check(req) ==
    LET auth == verify_api_key(req.api_key)
        item_uuid == UUID(req.calibration_item_id)
    IN IF auth # 0 THEN auth
       ELSE IF ~submit_valid(req) THEN 422
       ELSE IF item_uuid = None THEN 400
       ELSE IF {c \in calibration_items : c.id = item_uuid[1]} = {} THEN 404
       ELSE IF {e \in human_evaluations : /\ e.calibration_item_id = item_uuid[1]
                                           /\ e.evaluator = req.evaluator} # {} THEN 409
       ELSE 0

\* HumanEvaluation(...) as submit_evaluation builds it; id is a fresh uuid4
HumanEvaluation(req) ==
    LET item_uuid == UUID(req.calibration_item_id)[1]
    IN [id |-> <<item_uuid, req.evaluator,
                 Cardinality({e \in human_evaluations : /\ e.calibration_item_id = item_uuid
                                                        /\ e.evaluator = req.evaluator})>>,
        evaluator |-> req.evaluator,
        calibration_item_id |-> item_uuid,
        human_score |-> req.human_score,
        confidence |-> req.confidence,
        reasoning |-> req.reasoning]

\* UniqueConstraint("calibration_item_id", "evaluator"), checked as the INSERT is flushed
uq_calibration_evaluator(row) ==
    \A e \in human_evaluations :
        ~(e.calibration_item_id = row.calibration_item_id /\ e.evaluator = row.evaluator)

llm_score(req) ==
    LET item == CHOOSE c \in calibration_items : c.id = UUID(req.calibration_item_id)[1]
    IN item.final_relevancy_score

\* db.add(evaluation); db.commit() and the reply
submit_commit_effect(req) ==
    IF uq_calibration_evaluator(HumanEvaluation(req))
    THEN /\ human_evaluations' = human_evaluations \cup {HumanEvaluation(req)}
         /\ resp' = [req |-> req, op |-> "submit", status |-> 200,
                      body |-> Some([status |-> "ok", llm_score |-> llm_score(req)])]
    ELSE \* IntegrityError out of db.commit(): nothing catches it
         /\ UNCHANGED human_evaluations
         /\ resp' = [req |-> req, op |-> "submit", status |-> 500, body |-> None]

\* the whole handler, run by one worker with no other request in between
submit_evaluation_effect(req) ==
    LET st == submit_check(req)
    IN IF st # 0
       THEN /\ resp' = [req |-> req, op |-> "submit", status |-> st, body |-> None]
            /\ UNCHANGED human_evaluations
       ELSE submit_commit_effect(req)

submit_evaluation(req) ==
    /\ submit_evaluation_effect(req)
    /\ UNCHANGED <<calibration_items, ACITRACK_API_KEY, pc, loop, mainVars, embVars>>

\* the handler on worker w up to the existing-evaluation check ...
submit_begin(w, req) ==
    LET st == submit_check(req)
    IN /\ pc[w] = None
       /\ IF st # 0
          THEN /\ resp' = [req |-> req, op |-> "submit", status |-> st, body |-> None]
               /\ UNCHANGED pc
          ELSE /\ pc' = [pc EXCEPT ![w] = Some(req)]
               /\ UNCHANGED resp
       /\ UNCHANGED <<calibration_items, human_evaluations, ACITRACK_API_KEY, loop, mainVars, embVars>>

\* ... and from db.add to the reply
submit_commit(w) ==
    /\ pc[w] # None
    /\ submit_commit_effect(pc[w][1])
    /\ pc' = [pc EXCEPT ![w] = None]
    /\ UNCHANGED <<calibration_items, ACITRACK_API_KEY, loop, mainVars, embVars>>

\* ------------------------------------------------------------------ GET /calibration/stats
\* "if evaluator" for an Optional[str] query parameter
evaluator_given(evaluator) == evaluator # None /\ evaluator # Some("")

\* the evaluations the counts are taken over: those of the evaluator, or all
stats_rows(evaluator) ==
    IF evaluator_given(evaluator)
    THEN {e \in human_evaluations : e.evaluator = evaluator[1]}
    ELSE human_evaluations

\* the key of the distribution a human_score is counted under
distribution_key(score) ==
    IF score < 20 THEN "0-20"
    ELSE IF score < 40 THEN "20-40"
    ELSE IF score < 60 THEN "40-60"
    ELSE IF score < 80 THEN "60-80"
    ELSE "80-100"

DistributionKeys == {"0-20", "20-40", "40-60", "60-80", "80-100"}

\* a remaining that always subtracts the number of items rated by anyone
stats_remaining_anyone(evaluator) ==
    Cardinality(calibration_items)
        - Cardinality({e.calibration_item_id : e \in human_evaluations})

\* total_items - total_rated for an evaluator, and else total_items minus
\* count(distinct calibration_item_id)
stats_remaining(evaluator) ==
    Cardinality(calibration_items)
        - (IF evaluator_given(evaluator) THEN Cardinality(stats_rows(evaluator))
           ELSE Cardinality({e.calibration_item_id : e \in human_evaluations}))

\* count(human_evaluations.id) joined to calibration_items on the foreign key, gold items only
stats_gold_rated(evaluator) ==
    Cardinality({e \in stats_rows(evaluator) :
                    \E c \in calibration_items : c.id = e.calibration_item_id /\ is_gold(c)})

\* the reply of get_stats; avg_score, which is shown only, is left out
get_stats(req) ==
    LET auth == verify_api_key(req.api_key)
        rows == stats_rows(req.evaluator)
    IN /\ IF auth # 0
          THEN resp' = [req |-> req, op |-> "stats", status |-> auth, body |-> None]
          ELSE resp' = [req |-> req, op |-> "stats", status |-> 200,
                        body |-> Some([evaluator |-> req.evaluator,
                                       total_items |-> Cardinality(calibration_items),
                                       total_rated |-> Cardinality(rows),
                                       remaining |-> stats_remaining(req.evaluator),
                                       distribution |->
                                           [k \in DistributionKeys |->
                                               Cardinality({e \in rows :
                                                   distribution_key(e.human_score) = k})],
                                       gold_total |-> Cardinality({c \in calibration_items : is_gold(c)}),
                                       gold_rated |-> stats_gold_rated(req.evaluator)])]
       /\ UNCHANGED <<calibration_items, human_evaluations, ACITRACK_API_KEY, pc, loop, mainVars, embVars>>

\* ------------------------------------------------------------------ an evaluator's session
\* The calibration page asks for the next item, shows it, posts the rating of the
\* item shown, and asks again until next returns none.
NoLoop == [phase |-> "seeding", strategies |-> {}, served |-> <<>>, pending |-> None, replies |-> <<>>]

\* the item set is complete: the evaluator starts, with the strategies it will ask for
loop_start(strategies) ==
    /\ loop.phase = "seeding"
    /\ loop' = [loop EXCEPT !.phase = "running", !.strategies = strategies]
    /\ UNCHANGED <<calibration_items, human_evaluations, ACITRACK_API_KEY, pc, resp, mainVars, embVars>>

\* GET /calibration/next for the evaluator; an item returned is the item in hand
loop_next(evaluator) ==
    /\ loop.phase = "running"
    /\ loop.pending = None
    /\ \E strategy \in loop.strategies :
          get_next_item_reply([api_key |-> None, evaluator |-> evaluator, strategy |-> strategy])
    /\ loop' = IF resp'.body = None
               THEN [loop EXCEPT !.phase = "done"]
               ELSE [loop EXCEPT !.served = Append(@, resp'.body[1]),
                                 !.pending = Some(resp'.body[1].calibration_item_id)]
    /\ UNCHANGED <<calibration_items, human_evaluations, ACITRACK_API_KEY, pc, mainVars, embVars>>

\* POST /calibration/submit with a valid rating of the item in hand
loop_submit(evaluator) ==
    /\ loop.phase = "running"
    /\ loop.pending # None
    /\ submit_evaluation_effect([api_key |-> None, evaluator |-> evaluator,
                                 calibration_item_id |-> loop.pending[1],
                                 human_score |-> 80, confidence |-> Some("high"),
                                 reasoning |-> "relevant"])
    /\ loop' = [loop EXCEPT !.pending = None, !.replies = Append(@, resp'.status)]
    /\ UNCHANGED <<calibration_items, ACITRACK_API_KEY, pc, mainVars, embVars>>

\* ------------------------------------------------------------------ must-reads ranking
\* item.get("published_date", ""): <<"absent">> is a record without the key, <<"null">> a
\* JSON null, <<"num", t>> a JSON number, <<"str", t>> a string
date_val(published_date) ==
    \* datetime.fromisoformat(published_date.replace("Z", "+00:00")).timestamp();
    \* ValueError (text that is no ISO timestamp) and AttributeError (no string) give 0
    CASE published_date = <<"str", "2024-01-02T00:00:00Z">> -> 1704153600
      [] published_date = <<"str", "2023-06-01T12:00:00+00:00">> -> 1685620800
      [] published_date = <<"str", "1965-03-01T00:00:00Z">> -> -152668800
      [] OTHER -> 0

\* a key that treats a null score as 0
sort_key_none_zero(item) ==
    LET relevancy == item.relevancy_score
        relevancy_val == IF relevancy # None THEN relevancy[1] ELSE 0
    IN <<-relevancy_val, -date_val(item.published_date)>>

sort_key(item) ==
    LET relevancy == item.relevancy_score
        relevancy_val == IF relevancy # None THEN relevancy[1] ELSE -1
    IN <<-relevancy_val, -date_val(item.published_date)>>

\* an order that looks at the score alone
key_less_primary(a, b) == a[1] < b[1]

\* Python's order on the key tuples
key_less(a, b) == a[1] < b[1] \/ (a[1] = b[1] /\ a[2] < b[2])

\* a sort that puts an item ahead of the items with an equal key
RECURSIVE insert_sorted_ahead(_, _)
insert_sorted_ahead(done, item) ==
    IF done = <<>> THEN <<item>>
    ELSE LET last == done[Len(done)]
         IN IF ~key_less(sort_key(last), sort_key(item))
            THEN Append(insert_sorted_ahead(SubSeq(done, 1, Len(done) - 1), item), last)
            ELSE Append(done, item)

\* sorted(list, key=sort_key) is stable: an item goes behind every item whose key is not greater
RECURSIVE insert_sorted(_, _)
insert_sorted(done, item) ==
    IF done = <<>> THEN <<item>>
    ELSE LET last == done[Len(done)]
         IN IF key_less(sort_key(item), sort_key(last))
            THEN Append(insert_sorted(SubSeq(done, 1, Len(done) - 1), item), last)
            ELSE Append(done, item)

RECURSIVE sorted(_, _)
sorted(list, n) ==
    IF n = 0 THEN <<>> ELSE insert_sorted(sorted(list, n - 1), list[n])

\* list[:limit], a negative limit counting from the end
slice_to(list, limit) ==
    IF limit >= 0
    THEN SubSeq(list, 1, IF limit < Len(list) THEN limit ELSE Len(list))
    ELSE SubSeq(list, 1, IF Len(list) + limit > 0 THEN Len(list) + limit ELSE 0)

\* a filter that also drops a score equal to the threshold
filter_step_strict(items, min_relevance, include_zero) ==
    LET keep(item) == /\ item.relevancy_score # None
                      /\ item.relevancy_score[1] > min_relevance
    IN IF ~include_zero THEN SelectSeq(items, keep) ELSE items

\* Step 1 of filter_and_sort_must_reads
filter_step(items, min_relevance, include_zero) ==
    LET keep(item) == /\ item.relevancy_score # None
                      /\ item.relevancy_score[1] >= min_relevance
    IN IF ~include_zero THEN SelectSeq(items, keep) ELSE items

\* a variant that cuts to the limit before it sorts
filter_and_sort_slice_first(items, min_relevance, include_zero, limit) ==
    LET filtered == slice_to(filter_step(items, min_relevance, include_zero), limit)
    IN sorted(filtered, Len(filtered))

filter_and_sort_must_reads(items, min_relevance, include_zero, limit) ==
    LET filtered == filter_step(items, min_relevance, include_zero)
        sorted_items == sorted(filtered, Len(filtered))
    IN slice_to(sorted_items, limit)

\* one call of filter_and_sort_must_reads on the inputs drawn at the start
rank_call ==
    /\ rank.out = None
    /\ rank' = [rank EXCEPT !.out = Some(filter_and_sort_must_reads(
                    rank.items, rank.min_relevance, rank.include_zero, rank.limit))]
    /\ UNCHANGED <<calibVars, embVars, driveVars, rerank, norm>>

\* the same call once more, on the same records in an order that may differ
rank_permuted ==
    /\ rank.out # None
    /\ rerank = None
    /\ \E p \in Permutations(1..Len(rank.items)) :
          LET items == [i \in 1..Len(rank.items) |-> rank.items[p[i]]]
          IN rerank' = Some([items |-> items,
                             out |-> filter_and_sort_must_reads(
                                         items, rank.min_relevance, rank.include_zero, rank.limit)])
    /\ UNCHANGED <<calibVars, embVars, driveVars, rank, norm>>

\* filter_and_sort_must_reads applied to its own output, with the same parameters
rank_again ==
    /\ rank.out # None
    /\ rerank = None
    /\ rerank' = Some([items |-> rank.out[1],
                       out |-> filter_and_sort_must_reads(
                                   rank.out[1], rank.min_relevance, rank.include_zero, rank.limit)])
    /\ UNCHANGED <<calibVars, embVars, driveVars, rank, norm>>

\* ------------------------------------------------------------------ must-reads normalizer
\* A JSON value as json.loads delivers it: <<"null">>, <<"bool", b>>, <<"int", n>>,
\* <<"float", k>> (the float k / Scale), <<"inf">> and <<"nan">> (the floats json.loads
\* makes of 1e999 or Infinity, and of NaN), <<"str", chars>> (a sequence of characters),
\* <<"dict", d>> and <<"list", l>>. A record is a function from its keys to JSON values.
JNull == <<"null">>
JStr(chars) == <<"str", chars>>
JInt(n) == <<"int", n>>

Digits == <<"0", "1", "2", "3", "4", "5", "6", "7", "8", "9">>
IsDigit(c) == \E d \in 1..10 : Digits[d] = c
DigitVal(c) == (CHOOSE d \in 1..10 : Digits[d] = c) - 1
IsSpace(c) == c \in {" ", "\n", "\t"}

\* str.strip()
RECURSIVE lstrip(_)
lstrip(chars) ==
    IF chars # <<>> /\ IsSpace(Head(chars)) THEN lstrip(Tail(chars)) ELSE chars

RECURSIVE rstrip(_)
rstrip(chars) ==
    IF chars # <<>> /\ IsSpace(chars[Len(chars)])
    THEN rstrip(SubSeq(chars, 1, Len(chars) - 1))
    ELSE chars

\* the value of a run of decimal digits
RECURSIVE digits_val(_)
digits_val(chars) ==
    IF chars = <<>> THEN 0
    ELSE 10 * digits_val(SubSeq(chars, 1, Len(chars) - 1)) + DigitVal(chars[Len(chars)])

\* str(n) for an integer n
RECURSIVE nat_text(_)
nat_text(n) ==
    IF n < 10 THEN <<Digits[n + 1]>> ELSE Append(nat_text(n \div 10), Digits[(n % 10) + 1])

int_text(n) == IF n < 0 THEN <<"-">> \o nat_text(-n) ELSE nat_text(n)

\* int(text): blanks around, an optional sign, decimal digits; anything else is a ValueError
int_of_str(chars) ==
    LET t == rstrip(lstrip(chars))
        signed == t # <<>> /\ Head(t) \in {"-", "+"}
        body == IF signed THEN Tail(t) ELSE t
    IN IF body # <<>> /\ \A i \in 1..Len(body) : IsDigit(body[i])
       THEN <<"ok", IF signed /\ Head(t) = "-" THEN -digits_val(body) ELSE digits_val(body)>>
       ELSE <<"ValueError">>

\* int(v): <<"ok", n>> or the exception it raises
py_int(v) ==
    CASE v[1] = "int" -> <<"ok", v[2]>>
      [] v[1] = "bool" -> <<"ok", IF v[2] THEN 1 ELSE 0>>
      [] v[1] = "float" -> <<"ok", IF v[2] >= 0 THEN v[2] \div Scale ELSE -((-v[2]) \div Scale)>>
      [] v[1] = "nan" -> <<"ValueError">>
      [] v[1] = "inf" -> <<"OverflowError">>
      [] v[1] = "str" -> int_of_str(v[2])
      [] OTHER -> <<"TypeError">>

\* repr(v) in the place of str(v): a string comes back inside quotes
py_repr(v) ==
    CASE v[1] = "str" -> <<"'">> \o v[2] \o <<"'">>
      [] v[1] = "int" -> int_text(v[2])
      [] v[1] = "bool" -> IF v[2] THEN <<"T", "r", "u", "e">> ELSE <<"F", "a", "l", "s", "e">>
      [] v[1] = "null" -> <<"N", "o", "n", "e">>
      [] v[1] = "nan" -> <<"n", "a", "n">>
      [] v[1] = "inf" -> <<"i", "n", "f">>

\* str(v) for the values a reason field is given here
py_str(v) ==
    CASE v[1] = "str" -> v[2]
      [] v[1] = "int" -> int_text(v[2])
      [] v[1] = "bool" -> IF v[2] THEN <<"T", "r", "u", "e">> ELSE <<"F", "a", "l", "s", "e">>
      [] v[1] = "null" -> <<"N", "o", "n", "e">>
      [] v[1] = "nan" -> <<"n", "a", "n">>
      [] v[1] = "inf" -> <<"i", "n", "f">>

\* bool(v)
py_truthy(v) ==
    CASE v[1] = "null" -> FALSE
      [] v[1] = "bool" -> v[2]
      [] v[1] \in {"int", "float"} -> v[2] # 0
      [] v[1] = "str" -> v[2] # <<>>
      [] v[1] = "dict" -> DOMAIN v[2] # {}
      [] v[1] = "list" -> v[2] # <<>>
      [] OTHER -> TRUE

\* " ".join(text.split()): the words of the text, one blank between two words
RECURSIVE join_split(_, _)
join_split(chars, word) ==
    IF chars = <<>> THEN <<>>
    ELSE IF IsSpace(Head(chars)) THEN join_split(Tail(chars), word)
    ELSE (IF word THEN <<" ">> ELSE <<>>) \o <<Head(chars)>> \o
         (IF Len(chars) > 1 /\ ~IsSpace(chars[2])
          THEN join_split(Tail(chars), FALSE)
          ELSE join_split(Tail(chars), TRUE))

\* item.get(field): None for a key the record lacks
get(item, field) == IF field \in DOMAIN item THEN item[field] ELSE JNull

\* item[field] = value
set(item, field, value) ==
    [f \in DOMAIN item \cup {field} |-> IF f = field THEN value ELSE item[f]]

ExpectedFields ==
    {"relevancy_score", "relevancy_reason", "signals", "credibility_score", "credibility_reason",
     "credibility_confidence", "credibility_signals", "scored_at", "scoring_version", "scoring_model"}

defaults(field) ==
    CASE field \in {"relevancy_reason", "credibility_reason"} -> JStr(<<>>)
      [] field \in {"signals", "credibility_signals"} -> <<"dict", EmptyDict>>
      [] field = "scoring_version" -> JStr(<<"p", "o", "c", "_", "v", "1">>)
      [] OTHER -> JNull

\* lines 1070-1072
add_defaults(item) ==
    [f \in DOMAIN item \cup ExpectedFields |-> IF f \in DOMAIN item THEN item[f] ELSE defaults(f)]

\* lines 1075-1080, for one of the two reason fields
normalize_reason(item, field) ==
    IF py_truthy(get(item, field))
    THEN set(item, field, JStr(join_split(py_str(item[field]), FALSE)))
    ELSE item

\* a clamp that lets a score above 100 through
clamp_score_open(item, field) ==
    IF get(item, field) # JNull
    THEN LET score == py_int(item[field])
         IN IF score[1] = "ok"
            THEN <<"ok", set(item, field, JInt(IF score[2] < 0 THEN 0 ELSE score[2]))>>
            ELSE IF score[1] \in {"ValueError", "TypeError"}
            THEN <<"ok", set(item, field, JNull)>>
            ELSE <<"raise", score[1]>>
    ELSE <<"ok", item>>

\* lines 1083-1096, for one of the two score fields: <<"ok", item>>, or <<"raise", e>> for
\* an exception the except clause does not name
clamp_score(item, field) ==
    IF get(item, field) # JNull
    THEN LET score == py_int(item[field])
         IN IF score[1] = "ok"
            THEN <<"ok", set(item, field,
                             JInt(IF score[2] < 0 THEN 0 ELSE IF score[2] > 100 THEN 100 ELSE score[2]))>>
            ELSE IF score[1] \in {"ValueError", "TypeError"}
            THEN <<"ok", set(item, field, JNull)>>
            ELSE <<"raise", score[1]>>
    ELSE <<"ok", item>>

\* lines 1099-1102, for one of the two signal fields
ensure_dict(item, field) ==
    IF get(item, field)[1] # "dict" THEN set(item, field, <<"dict", EmptyDict>>) ELSE item

normalize_must_read_item(item) ==
    LET i1 == add_defaults(item)
        i2 == normalize_reason(i1, "relevancy_reason")
        i3 == normalize_reason(i2, "credibility_reason")
        r4 == clamp_score(i3, "relevancy_score")
    IN IF r4[1] = "raise" THEN r4
       ELSE LET r5 == clamp_score(r4[2], "credibility_score")
            IN IF r5[1] = "raise" THEN r5
               ELSE <<"ok", ensure_dict(ensure_dict(r5[2], "signals"), "credibility_signals")>>

\* one call of normalize_must_read_item on the record drawn at the start
normalize_call ==
    /\ norm.out = None
    /\ norm' = [norm EXCEPT !.out = Some(normalize_must_read_item(norm.item))]
    /\ UNCHANGED <<calibVars, embVars, driveVars, rank, rerank>>

\* a second call, on the record the first call returned
normalize_again ==
    /\ norm.out # None
    /\ norm.out[1][1] = "ok"
    /\ norm.again = None
    /\ norm' = [norm EXCEPT !.again = Some(normalize_must_read_item(norm.out[1][2]))]
    /\ UNCHANGED <<calibVars, embVars, driveVars, rank, rerank>>

\* ------------------------------------------------------------------ main.py: the artifact cache
\* File contents are byte strings; b"" is the empty file.  The Drive folder maps a file
\* name to None (no such file, or trashed) or to the content of the file.  Each of the
\* two API calls answers "ok", fails with "HttpError" (the API's error response) or
\* fails with "Exception" (anything else: no credentials, no connection).
CACHE_TTL_MINUTES == 10

FileNames == {"latest_must_reads.md"}

EmptyCache == [f \in {} |-> None]

\* is_cache_valid: an entry exists and is younger than the TTL
is_cache_valid(filename) ==
    /\ filename \in DOMAIN artifact_cache
    /\ now < artifact_cache[filename].cached_at + CACHE_TTL_MINUTES

\* get_cached_content
get_cached_content(filename) ==
    IF is_cache_valid(filename) THEN Some(artifact_cache[filename].content) ELSE None

\* set_cache: the entry of filename is replaced
set_cache(filename, content, file_id) ==
    [f \in (DOMAIN artifact_cache) \cup {filename} |->
        IF f = filename
        THEN [cached_at |-> now, content |-> content, file_id |-> file_id]
        ELSE artifact_cache[f]]

\* find_file_in_folder: the id of the file, None when the folder has no such file;
\* an HttpError becomes HTTPException(500), any other exception passes through
find_file_in_folder(filename) ==
    CASE drive.list = "HttpError" -> <<"HTTPException", 500>>
      [] drive.list = "Exception" -> <<"Exception">>
      [] OTHER -> IF drive.files[filename] = None THEN <<"ok", None>>
                  ELSE <<"ok", Some(<<"id", filename>>)>>

\* download_file_content: the bytes of the file
download_file_content(file_id) ==
    CASE drive.get_media = "HttpError" -> <<"HTTPException", 500>>
      [] drive.get_media = "Exception" -> <<"Exception">>
      [] OTHER -> <<"ok", drive.files[file_id[2]][1]>>

\* Response(content=..., headers=...)
Response(content, headers) == [status |-> 200, content |-> Some(content), headers |-> headers]

\* raise HTTPException(status_code=...)
HTTPException(status_code) == [status |-> status_code, content |-> None, headers |-> {}]

\* the except Exception branch of get_artifact_with_cache
drive_error_fallback(filename) ==
    IF filename \in DOMAIN artifact_cache
    THEN Response(artifact_cache[filename].content,
                  {<<"X-Cache-Status", "stale">>, <<"X-Error", "Drive API unavailable">>})
    ELSE HTTPException(503)

\* get_artifact_with_cache: the response and the cache it leaves
get_artifact_with_cache(filename) ==
    LET cached_content == get_cached_content(filename)
        found == find_file_in_folder(filename)
        got == download_file_content(found[2][1])
        keep(r) == [response |-> r, cache |-> artifact_cache]
    IN IF cached_content # None /\ cached_content[1] # ""
       THEN keep(Response(cached_content[1], {}))
       ELSE IF found[1] = "HTTPException" THEN keep(HTTPException(found[2]))
       ELSE IF found[1] = "Exception" THEN keep(drive_error_fallback(filename))
       ELSE IF found[2] = None
       THEN IF filename \in DOMAIN artifact_cache
            THEN keep(Response(artifact_cache[filename].content, {<<"X-Cache-Status", "stale">>}))
            ELSE keep(HTTPException(404))
       ELSE IF got[1] = "HTTPException" THEN keep(HTTPException(got[2]))
       ELSE IF got[1] = "Exception" THEN keep(drive_error_fallback(filename))
       ELSE [response |-> Response(got[2], {}),
             cache |-> set_cache(filename, got[2], found[2][1])]

\* no request yet; store and cache_before are the folder and the cache the call started
\* from, cache_hit tells that the call found a valid entry and did not ask Drive
NoArtifact ==
    [filename |-> None, response |-> HTTPException(0), store |-> None, cache_before |-> None,
     cache_hit |-> FALSE]

\* a request for an artifact, served from start to end
artifact_call ==
    \E filename \in FileNames :
        LET r == get_artifact_with_cache(filename)
            cached_content == get_cached_content(filename)
        IN /\ artifact' = [filename |-> Some(filename), response |-> r.response,
                           store |-> Some(drive), cache_before |-> Some(artifact_cache),
                           cache_hit |-> (cached_content # None /\ cached_content[1] # "")]
           /\ artifact_cache' = r.cache
           /\ UNCHANGED <<calibVars, embVars, rank, rerank, norm, drive, now, resolve, must>>

\* the pipeline uploads a new version of a file, or the file is removed
Contents == {"", "v1", "v2"}

drive_change ==
    \E filename \in FileNames, c \in {None} \cup {Some(b) : b \in Contents} :
        /\ drive.files[filename] # c
        /\ drive' = [drive EXCEPT !.files[filename] = c]
        /\ UNCHANGED <<calibVars, embVars, rank, rerank, norm, artifact_cache, now, artifact, resolve, must>>

\* the Drive API starts or stops failing
ApiOutcomes == {"ok", "HttpError", "Exception"}

drive_outage ==
    \E l \in ApiOutcomes, g \in ApiOutcomes :
        /\ <<l, g>> # <<drive.list, drive.get_media>>
        /\ drive' = [drive EXCEPT !.list = l, !.get_media = g]
        /\ UNCHANGED <<calibVars, embVars, rank, rerank, norm, artifact_cache, now, artifact, resolve, must>>

\* time passes
TickMinutes == 5
MaxClock == 20

tick ==
    /\ now + TickMinutes <= MaxClock
    /\ now' = now + TickMinutes
    /\ UNCHANGED <<calibVars, embVars, rank, rerank, norm, artifact_cache, drive, artifact, resolve, must>>

\* ------------------------------------------------------------------ main.py: the output file resolver
\* A Drive path is the sequence of its segments (output_path.split('/')).  The Drive a
\* call reads is resolve.store: by_id gives, for a file id, what get_media delivers
\* (<<"raise">> for an error of the API, <<"ok", bytes>> for the file), and by_path
\* gives, for a path from the root folder, None when a folder or the file is not
\* there, and else what the download of the file delivers.
key_alternatives ==
    [new |-> <<"new", "new_csv">>,
     must_reads |-> <<"must_reads", "must_reads_json">>,
     report |-> <<"report", "report_md">>,
     summaries |-> <<"summaries", "summaries_json">>]

filename_map ==
    [new |-> "new.csv", must_reads |-> "must_reads.json", report |-> "report.md",
     summaries |-> "summaries.json"]

key_mapping ==
    [new |-> "new_csv", must_reads |-> "must_reads_json", report |-> "report_md",
     summaries |-> "summaries_json"]

\* str.capitalize() of a run mode
capitalize(mode) == IF mode = "daily" THEN "Daily" ELSE IF mode = "weekly" THEN "Weekly" ELSE mode

\* local_path.replace("data/", ""): every segment "data" in front of a slash goes
\* (no segment drawn ends in "data" otherwise)
RECURSIVE replace_data(_)
replace_data(path) ==
    IF Len(path) <= 1 THEN path
    ELSE IF Head(path) = "data" THEN replace_data(Tail(path))
    ELSE <<Head(path)>> \o replace_data(Tail(path))

\* Python truthiness of a dict that may be missing (None)
dict_truthy(d) == d # None /\ DOMAIN d[1] # {}

\* a or b
py_or(a, b) == IF dict_truthy(a) THEN a ELSE b

\* "not content" for content that is None or bytes
not_content(content) == content = None \/ content = Some("")

\* download_file_content(file_id) on the Drive of the call in resolve
download_by_id(file_id) ==
    IF file_id \in DOMAIN resolve.store.by_id THEN resolve.store.by_id[file_id] ELSE <<"raise">>

\* get_output_file_content(output_path): HTTPException(503) for a path that is too short
\* or leads nowhere, and whatever the download raises
get_output_file_content(output_path) ==
    IF Len(output_path) < 2 THEN <<"raise">>
    ELSE IF output_path \notin DOMAIN resolve.store.by_path THEN <<"raise">>
    ELSE IF resolve.store.by_path[output_path] = None THEN <<"raise">>
    ELSE resolve.store.by_path[output_path][1]

\* the loop over keys_to_try of priority 1 (method "drive_file_id") and priority 2
\* (method "drive_output_path") from key i on; s holds content, debug_info and the
\* attempts made so far
RECURSIVE try_variants(_, _, _, _, _)
try_variants(method, refs, keys_to_try, i, s) ==
    IF i > Len(keys_to_try) THEN s
    ELSE LET key_variant == keys_to_try[i]
             ref == refs[key_variant]
             got == IF method = "drive_file_id" THEN download_by_id(ref)
                    ELSE get_output_file_content(ref)
             tried == Append(s.log, <<method, got>>)
         IN IF key_variant \notin DOMAIN refs
            THEN try_variants(method, refs, keys_to_try, i + 1, s)
            ELSE IF got[1] = "ok"
            THEN [content |-> Some(got[2]),
                  log |-> tried,
                  debug_info |-> Some([resolution_method |-> method, resolved_path |-> ref,
                                       manifest_key |-> key_variant])]
            ELSE try_variants(method, refs, keys_to_try, i + 1, [s EXCEPT !.log = tried])

\* priority 3: Daily/<run_id>/<filename> looked up folder by folder, then downloaded
folder_traversal(file_key, mode, run_id, s) ==
    LET path == <<capitalize(mode), run_id, filename_map[file_key]>>
        found == path \in DOMAIN resolve.store.by_path /\ resolve.store.by_path[path] # None
        got == resolve.store.by_path[path][1]
    IN IF file_key \notin DOMAIN filename_map THEN s
       ELSE IF ~found THEN [s EXCEPT !.log = Append(@, <<"smart_folder_traversal", <<"none">>>>)]
       ELSE IF got[1] = "ok"
       THEN [content |-> Some(got[2]),
             log |-> Append(s.log, <<"smart_folder_traversal", got>>),
             debug_info |-> Some([resolution_method |-> "smart_folder_traversal",
                                  resolved_path |-> path, manifest_key |-> file_key])]
       ELSE [s EXCEPT !.log = Append(@, <<"smart_folder_traversal", got>>)]

\* priority 4: the legacy output_paths of the manifest
local_fallback(file_key, manifest, s) ==
    LET output_paths == IF dict_truthy(manifest.output_paths) THEN manifest.output_paths[1]
                        ELSE IF manifest.local_output_paths # None
                        THEN manifest.local_output_paths[1]
                        ELSE [k \in {} |-> <<>>]
        output_key == IF file_key \in DOMAIN key_mapping THEN key_mapping[file_key] ELSE file_key
        drive_path == replace_data(output_paths[output_key])
        got == get_output_file_content(drive_path)
    IN IF output_key \notin DOMAIN output_paths THEN s
       ELSE IF got[1] = "ok"
       THEN [content |-> Some(got[2]),
             log |-> Append(s.log, <<"local_fallback", got>>),
             debug_info |-> Some([resolution_method |-> "local_fallback",
                                  resolved_path |-> drive_path, manifest_key |-> file_key])]
       ELSE [s EXCEPT !.log = Append(@, <<"local_fallback", got>>)]

\* resolve_and_get_output_file: <<"ok", content, debug_info, log>> or
\* <<"raise", 503, log>>, log being the attempts made, in the order made
resolve_and_get_output_file(file_key, latest_run, debug) ==
    LET manifest == latest_run.manifest
        latest_pointer == latest_run.latest_pointer
        keys_to_try == IF file_key \in DOMAIN key_alternatives THEN key_alternatives[file_key]
                       ELSE <<file_key>>
        s0 == [content |-> None, log |-> <<>>, debug_info |-> None]
        drive_file_ids == py_or(latest_pointer.drive_file_ids, manifest.drive_file_ids)
        s1 == IF dict_truthy(drive_file_ids)
              THEN try_variants("drive_file_id", drive_file_ids[1], keys_to_try, 1, s0)
              ELSE s0
        drive_output_paths == py_or(latest_pointer.drive_output_paths, manifest.drive_output_paths)
        s2 == IF not_content(s1.content) /\ dict_truthy(drive_output_paths)
              THEN try_variants("drive_output_path", drive_output_paths[1], keys_to_try, 1, s1)
              ELSE s1
        s3 == IF not_content(s2.content)
              THEN folder_traversal(file_key, latest_run.mode, latest_run.run_id, s2)
              ELSE s2
        s4 == IF not_content(s3.content) THEN local_fallback(file_key, manifest, s3) ELSE s3
    IN IF not_content(s4.content) THEN <<"raise", 503, s4.log>>
       ELSE <<"ok", s4.content[1], IF debug THEN s4.debug_info ELSE None, s4.log>>

NoStore == [by_id |-> [i \in {} |-> <<"raise">>], by_path |-> [q \in {} |-> None]]

NoResolve ==
    [out |-> None, store |-> NoStore, file_key |-> "none", latest_run |-> None, debug |-> FALSE]

\* one call of resolve_and_get_output_file on the inputs drawn at the start
resolve_call ==
    /\ resolve.out = None
    /\ resolve.latest_run # None
    /\ resolve' = [resolve EXCEPT !.out = Some(resolve_and_get_output_file(
                       resolve.file_key, resolve.latest_run[1], resolve.debug))]
    /\ UNCHANGED <<calibVars, embVars, rank, rerank, norm, artifact_cache, drive, now, artifact, must>>

\* ------------------------------------------------------------------ main.py: GET /api/must-reads
\* The request in must holds the query parameters, what Drive gives get_latest_run for
\* a valid mode, and for each file content the document its bytes encode: <<"ok", json_data>>
\* or <<"JSONDecodeError">>.  The files are those of the Drive in resolve.  The text
\* json.dumps makes of the result is held as the result itself.

\* get_latest_run(mode): <<"ok", latest_run>> or <<"raise", status_code>>
get_latest_run(mode) ==
    IF mode \notin {"daily", "weekly"} THEN <<"raise", 400>> ELSE must.latest_run

\* json.loads(content.decode('utf-8'))
json_loads(content) ==
    IF content \in DOMAIN must.documents THEN must.documents[content] ELSE <<"JSONDecodeError">>

\* Step 1, [normalize_must_read_item(item) for item in items], over the first n items:
\* <<"ok", normalized_items>>, or <<"raise", e>> for the first item that raises
RECURSIVE normalize_items(_, _)
normalize_items(items, n) ==
    IF n = 0 THEN <<"ok", <<>>>>
    ELSE LET before == normalize_items(items, n - 1)
             item == normalize_must_read_item(items[n])
         IN IF before[1] = "raise" THEN before
            ELSE IF item[1] = "raise" THEN item
            ELSE <<"ok", Append(before[2], item[2])>>

\* a normalized record as filter_and_sort_must_reads reads it: item.get("relevancy_score")
\* and item.get("published_date", "")
as_read(item) ==
    [item |-> item,
     published_date |-> IF "published_date" \in DOMAIN item THEN item["published_date"]
                        ELSE <<"absent">>,
     relevancy_score |-> IF get(item, "relevancy_score") = JNull THEN None
                         ELSE Some(item["relevancy_score"][2])]

\* Step 2 on the normalized records
filter_and_sort(normalized_items, min_relevance, include_zero, limit) ==
    LET read == [i \in 1..Len(normalized_items) |-> as_read(normalized_items[i])]
        kept == filter_and_sort_must_reads(read, min_relevance, include_zero, limit)
    IN [i \in 1..Len(kept) |-> kept[i].item]

\* the items and the metadata of the document: <<"ok", items, metadata>>, or <<"raise">>
\* for a document that is neither a map with the key must_reads nor a list
extract_items(json_data) ==
    IF json_data[1] = "dict" /\ "must_reads" \in DOMAIN json_data[2]
    THEN <<"ok", json_data[2]["must_reads"],
           [k \in DOMAIN json_data[2] \ {"must_reads"} |-> json_data[2][k]]>>
    ELSE IF json_data[1] = "list" THEN <<"ok", json_data, EmptyDict>>
    ELSE <<"raise">>

\* the body of the response: the result and, with debug, _debug
result_payload(filtered_sorted, metadata, normalized_items, req, latest_run, resolution_info) ==
    LET result == [k \in DOMAIN metadata \cup {"must_reads"} |->
                      IF k = "must_reads" THEN <<"list", filtered_sorted>> ELSE metadata[k]]
        debug_info == [run_id |-> latest_run.run_id,
                       total_items_before_filter |-> Len(normalized_items),
                       total_items_after_filter |-> Len(filtered_sorted),
                       query_params |-> [limit |-> req.limit, min_relevance |-> req.min_relevance,
                                         include_zero |-> req.include_zero, mode |-> req.mode],
                       resolution |-> resolution_info]
    IN IF req.debug THEN set(result, "_debug", <<"dict", debug_info>>) ELSE result

\* Steps 2 and 3 of get_must_reads, on what Step 1 gave: an exception of Step 1 is none
\* the except clause names, it leaves the handler and the server answers it with 500
must_reads_of_normalized(req, latest_run, resolution_info, normalized, metadata) ==
    IF normalized[1] = "raise" THEN HTTPException(500)
    ELSE Response(result_payload(filter_and_sort(normalized[2], req.min_relevance,
                                                 req.include_zero, req.limit),
                                 metadata, normalized[2], req, latest_run, resolution_info), {})

\* Step 1 on the extracted items; the HTTPException(500) of the structure check passes
\* the except clause, and a must_reads that is null cannot be iterated (TypeError)
must_reads_of_items(req, latest_run, resolution_info, extracted) ==
    IF extracted[1] = "raise" THEN HTTPException(500)
    ELSE must_reads_of_normalized(req, latest_run, resolution_info,
             IF extracted[2][1] = "list"
             THEN normalize_items(extracted[2][2], Len(extracted[2][2]))
             ELSE <<"raise", "TypeError">>,
             extracted[3])

\* the try block on the parsed content; except json.JSONDecodeError gives 500
must_reads_of_json(req, latest_run, resolution_info, parsed) ==
    IF parsed[1] = "JSONDecodeError" THEN HTTPException(500)
    ELSE must_reads_of_items(req, latest_run, resolution_info, extract_items(parsed[2]))

\* the handler from the resolver's result on; its HTTPException(503) goes through
must_reads_of_file(req, latest_run, resolved) ==
    IF resolved[1] = "raise" THEN HTTPException(resolved[2])
    ELSE must_reads_of_json(req, latest_run, resolved[3], json_loads(resolved[2]))

\* the handler from the latest run on; an HTTPException of get_latest_run goes through
must_reads_of_run(req, latest_run) ==
    IF latest_run[1] = "raise" THEN HTTPException(latest_run[2])
    ELSE must_reads_of_file(req, latest_run[2],
             resolve_and_get_output_file("must_reads", latest_run[2], req.debug))

\* get_must_reads: the response
get_must_reads_response(req) == must_reads_of_run(req, get_latest_run(req.mode))

\* no request yet
NoMust ==
    [limit |-> 5, min_relevance |-> 30, include_zero |-> FALSE, out |-> None, mode |-> "daily",
     latest_run |-> <<"raise", 503>>, debug |-> FALSE, documents |-> [c \in {} |-> <<"JSONDecodeError">>]]

\* one request GET /api/must-reads with the parameters drawn at the start
get_must_reads ==
    /\ must.out = None
    /\ must' = [must EXCEPT !.out = Some(get_must_reads_response(must))]
    /\ UNCHANGED <<calibVars, embVars, rank, rerank, norm, artifact_cache, drive, now, artifact,
                   resolve>>

\* ------------------------------------------------------------------ embeddings.py: the text to embed
\* A text is a sequence of characters; None is a missing argument.
strip(chars) == rstrip(lstrip(chars))

\* text[:n]
prefix(chars, n) == SubSeq(chars, 1, IF Len(chars) < n THEN Len(chars) ELSE n)

\* the length the rationale is cut to
RationaleCap == 500

\* " | ".join(parts)
RECURSIVE join_parts(_)
join_parts(parts) ==
    IF parts = <<>> THEN <<>>
    ELSE IF Len(parts) = 1 THEN parts[1]
    ELSE parts[1] \o <<" ", "|", " ">> \o join_parts(Tail(parts))

\* `x and x.strip()`: the argument is given and has a character that is no blank
nonblank(x) == x # None /\ x[1] # <<>> /\ strip(x[1]) # <<>>

SourceLabel == <<"S", "o", "u", "r", "c", "e", ":", " ">>

\* <<"ok", text>> or <<"raise", "ValueError">>
build_embedding_text(title, final_summary, source, evaluator_rationale) ==
    IF title = None \/ title[1] = <<>>
    THEN <<"raise", "ValueError">>
    ELSE LET summary_part ==
                 IF nonblank(final_summary) THEN <<strip(final_summary[1])>>
                 ELSE IF nonblank(evaluator_rationale)
                 THEN <<prefix(strip(evaluator_rationale[1]), RationaleCap)>>
                 ELSE <<>>
             source_part ==
                 IF nonblank(source) THEN <<SourceLabel \o strip(source[1])>> ELSE <<>>
         IN <<"ok", join_parts(<<strip(title[1])>> \o summary_part \o source_part)>>

\* one call of build_embedding_text on the arguments drawn at the start
build_call ==
    /\ embtext.out = None
    /\ embtext' = [embtext EXCEPT !.out = Some(build_embedding_text(
                       embtext.title, embtext.final_summary, embtext.source,
                       embtext.evaluator_rationale))]
    /\ UNCHANGED <<calibVars, mainVars, chunk, emb, backfill, publication_embeddings>>

\* ------------------------------------------------------------------ embeddings.py: calls to the provider
\* stop_after_attempt(3)
MaxAttempts == 3

\* the vector the provider computes for the text it is sent
Embedding(text) == <<"E", text>>

\* [t.strip() for t in texts if t and t.strip()]
RECURSIVE cleaned_texts(_)
cleaned_texts(texts) ==
    IF texts = <<>> THEN <<>>
    ELSE (IF strip(Head(texts)) # <<>> THEN <<strip(Head(texts))>> ELSE <<>>)
         \o cleaned_texts(Tail(texts))

\* response.data of client.embeddings.create(input=input): one item per input text, with
\* the index of the text, in the order p the provider chose
response_data(input, p) ==
    [i \in 1..Len(input) |-> [index |-> p[i], embedding |-> Embedding(input[p[i]])]]

\* [item.embedding for item in sorted(data, key=lambda x: x.index)]
RECURSIVE sorted_by_index(_)
sorted_by_index(data) ==
    IF data = <<>> THEN <<>>
    ELSE LET m == CHOOSE i \in 1..Len(data) :
                      \A j \in 1..Len(data) :
                          data[i].index < data[j].index \/ (data[i].index = data[j].index /\ i <= j)
             rest == [j \in 1..(Len(data) - 1) |-> IF j < m THEN data[j] ELSE data[j + 1]]
         IN <<data[m].embedding>> \o sorted_by_index(rest)

\* the body of generate_embeddings_batch, run once: <<"ok", vectors, called>> or
\* <<"raise", "EmbeddingError", called>>, called telling whether the provider was called.
\* outcome is what the provider does if it is called: <<"fail">> (any exception of the
\* client) or <<"data", p>> (a response whose items come in the order p)
batch_body(texts, client, outcome) ==
    IF ~client THEN <<"raise", "EmbeddingError", FALSE>>
    ELSE IF texts = <<>> THEN <<"ok", <<>>, FALSE>>
    ELSE LET cleaned == cleaned_texts(texts)
         IN IF cleaned = <<>> THEN <<"raise", "EmbeddingError", FALSE>>
            ELSE IF outcome = <<"fail">> THEN <<"raise", "EmbeddingError", TRUE>>
            ELSE <<"ok", sorted_by_index(response_data(cleaned, outcome[2])), TRUE>>

\* the body of generate_embedding, run once, for texts = <<text>>
single_body(texts, client, outcome) ==
    IF ~client THEN <<"raise", "EmbeddingError", FALSE>>
    ELSE IF strip(texts[1]) = <<>> THEN <<"raise", "EmbeddingError", FALSE>>
    ELSE IF outcome = <<"fail">> THEN <<"raise", "EmbeddingError", TRUE>>
    ELSE <<"ok", response_data(<<strip(texts[1])>>, outcome[2])[1].embedding, TRUE>>

\* a retry policy that stops one attempt later
stop_after_attempt_late(attempt_number) == attempt_number > MaxAttempts

\* stop=stop_after_attempt(3)
stop_after_attempt(attempt_number) == attempt_number >= MaxAttempts

\* the orders in which the provider may return the items for n input texts
Outcomes(n) == {<<"fail">>} \cup {<<"data", p>> : p \in Permutations(1..n)}

\* the call has been made and has neither returned nor raised to its caller
InCall == emb.fn # "none" /\ emb.result = None

\* one attempt of the retrying call: the body runs; a return ends the call; an exception
\* ends it if the policy says stop (reraise=True hands the exception to the caller), and
\* otherwise the call sleeps before its next attempt
embed_attempt ==
    /\ InCall
    /\ ~emb.sleeping
    /\ \E outcome \in Outcomes(Len(IF emb.fn = "batch" THEN cleaned_texts(emb.texts)
                                    ELSE <<strip(emb.texts[1])>>)) :
          LET r == IF emb.fn = "batch"
                   THEN batch_body(emb.texts, emb.client, outcome)
                   ELSE single_body(emb.texts, emb.client, outcome)
              n == emb.attempt_number + 1
              log == IF r[3] THEN Append(emb.log, r[1]) ELSE emb.log
          IN emb' = [emb EXCEPT !.attempt_number = n,
                                !.log = log,
                                !.result = IF r[1] = "ok" THEN Some(<<"ok", r[2]>>)
                                           ELSE IF stop_after_attempt(n)
                                           THEN Some(<<"raise", r[2]>>)
                                           ELSE None,
                                !.sleeping = r[1] = "raise" /\ ~stop_after_attempt(n)]
    /\ UNCHANGED <<calibVars, mainVars, chunk, embtext, backfill, publication_embeddings>>

\* wait=wait_exponential(...): the sleep between two attempts
embed_backoff ==
    /\ InCall
    /\ emb.sleeping
    /\ emb' = [emb EXCEPT !.sleeping = FALSE, !.sleeps = emb.sleeps + 1]
    /\ UNCHANGED <<calibVars, mainVars, chunk, embtext, backfill, publication_embeddings>>

\* a new call, before its first attempt
NewCall(fn, texts, client) ==
    [log |-> <<>>, result |-> None, texts |-> texts, client |-> client, attempt_number |-> 0,
     fn |-> fn, sleeping |-> FALSE, sleeps |-> 0]

\* a caller calls generate_embedding(text) or generate_embeddings_batch(texts); client
\* tells whether get_openai_client() has a key to make a client with
embed_start(fn, texts, client) ==
    /\ emb.fn = "none"
    /\ backfill.stage = "idle"
    /\ emb' = NewCall(fn, texts, client)
    /\ UNCHANGED <<calibVars, mainVars, chunk, embtext, backfill, publication_embeddings>>

\* ------------------------------------------------------------------ embeddings.py: chunking
\* a loop that closes a batch only when it has grown past max_batch_size
RECURSIVE chunk_loop_past(_, _, _, _, _)
chunk_loop_past(items, max_batch_size, i, batches, current_batch) ==
    IF i > Len(items)
    THEN IF current_batch # <<>> THEN Append(batches, current_batch) ELSE batches
    ELSE LET grown == Append(current_batch, items[i])
         IN IF Len(grown) > max_batch_size
            THEN chunk_loop_past(items, max_batch_size, i + 1, Append(batches, grown), <<>>)
            ELSE chunk_loop_past(items, max_batch_size, i + 1, batches, grown)

\* the loop of chunk_texts_for_batching from item i on, and its tail
RECURSIVE chunk_loop(_, _, _, _, _)
chunk_loop(items, max_batch_size, i, batches, current_batch) ==
    IF i > Len(items)
    THEN IF current_batch # <<>> THEN Append(batches, current_batch) ELSE batches
    ELSE LET grown == Append(current_batch, items[i])
         IN IF Len(grown) >= max_batch_size
            THEN chunk_loop(items, max_batch_size, i + 1, Append(batches, grown), <<>>)
            ELSE chunk_loop(items, max_batch_size, i + 1, batches, grown)

chunk_texts_for_batching(items, max_batch_size) ==
    chunk_loop(items, max_batch_size, 1, <<>>, <<>>)

NoChunk == [items |-> <<>>, out |-> None, max_batch_size |-> 1]

\* one call of chunk_texts_for_batching on the arguments drawn at the start
chunk_call ==
    /\ chunk.out = None
    /\ chunk' = [chunk EXCEPT !.out = Some(chunk_texts_for_batching(chunk.items, chunk.max_batch_size))]
    /\ UNCHANGED <<calibVars, mainVars, embtext, emb, backfill, publication_embeddings>>

\* ------------------------------------------------------------------ scripts/backfill_embeddings.py
\* lines 188-201: the (publication_id, text) items, publications without a title skipped
RECURSIVE build_items(_)
build_items(publications) ==
    IF publications = <<>> THEN <<>>
    ELSE LET pub == Head(publications)
             text == build_embedding_text(pub.title, pub.final_summary, None, None)
         IN (IF text[1] = "ok" THEN <<<<pub.publication_id, text[2]>>>> ELSE <<>>)
            \o build_items(Tail(publications))

\* process_batch up to its call of generate_embeddings_batch
process_batch_begin(publications) ==
    /\ backfill.stage = "idle"
    /\ emb.fn = "none"
    /\ LET items == build_items(publications)
           skipped == Len(publications) - Len(items)
       IN IF items = <<>>
          THEN /\ backfill' = [items |-> items, stage |-> "done",
                               success_count |-> 0, error_count |-> skipped]
               /\ UNCHANGED emb
          ELSE /\ backfill' = [items |-> items, stage |-> "embedding",
                               success_count |-> 0, error_count |-> skipped]
               /\ emb' = NewCall("batch", [i \in 1..Len(items) |-> items[i][2]], TRUE)
    /\ UNCHANGED <<calibVars, mainVars, chunk, embtext, publication_embeddings>>

\* lines 217-250 for the items from position i on: embeddings[i] of a list that is too
\* short raises IndexError, which the inner except counts as an error
RECURSIVE store_loop(_, _, _, _)
store_loop(items, embeddings, i, s) ==
    IF i > Len(items) THEN s
    ELSE IF i > Len(embeddings)
    THEN store_loop(items, embeddings, i + 1, [s EXCEPT !.error_count = @ + 1])
    ELSE LET row == [publication_id |-> items[i][1], embedding |-> embeddings[i],
                     embedded_text |-> items[i][2]]
             kept == {r \in s.table : r.publication_id # items[i][1]}
         IN store_loop(items, embeddings, i + 1,
                       [s EXCEPT !.table = kept \cup {row}, !.success_count = @ + 1])

\* process_batch from the end of generate_embeddings_batch on
process_batch_store ==
    /\ backfill.stage = "embedding"
    /\ emb.result # None
    /\ IF emb.result[1][1] = "raise"
       THEN /\ backfill' = [backfill EXCEPT !.stage = "done",
                                            !.error_count = @ + Len(backfill.items)]
            /\ UNCHANGED publication_embeddings
       ELSE LET s == store_loop(backfill.items, emb.result[1][2], 1,
                                [success_count |-> backfill.success_count,
                                 error_count |-> backfill.error_count,
                                 table |-> publication_embeddings])
            IN /\ backfill' = [backfill EXCEPT !.stage = "done",
                                               !.success_count = s.success_count,
                                               !.error_count = s.error_count]
               /\ publication_embeddings' = s.table
    /\ UNCHANGED <<calibVars, mainVars, chunk, embtext, emb>>

\* ------------------------------------------------------------------ inputs
NoRank == [limit |-> 5, items |-> <<>>, min_relevance |-> 30, include_zero |-> FALSE, out |-> None]
NoNorm == [item |-> EmptyDict, out |-> None, again |-> None]
NoText == [out |-> None, title |-> None, final_summary |-> None,
           source |-> None, evaluator_rationale |-> None]
NoEmb == NewCall("none", <<>>, FALSE)
NoBackfill == [items |-> <<>>, stage |-> "idle", success_count |-> 0, error_count |-> 0]
NoResp == [req |-> None, op |-> "none", status |-> 0, body |-> None]
Workers == {"w1", "w2"}

SeedReq(ids, tags) == [tags |-> tags, api_key |-> None, publication_ids |-> ids]

\* publication_ids lists of 0..MaxSeedLen entries over a pool of ids
SeedLists(pool) == UNION {[1..n -> pool] : n \in 0..MaxSeedLen}

NextReqs(evaluators, strategies) ==
    {[api_key |-> None, evaluator |-> e, strategy |-> st] : e \in evaluators, st \in strategies}

\* identifiers a client can send: those of rows that can exist, a UUID no row has, and text that is no UUID
ItemIdTexts(pool) ==
    {uuid_str(<<p, 0>>) : p \in pool} \cup {uuid_str(<<"unknown", 0>>), <<"text", "not-a-uuid">>}

\* (human_score, reasoning, confidence) of the submissions tried
Ratings ==
    {<<80, "relevant", Some("high")>>, <<30, "off topic", None>>,
     <<150, "relevant", None>>, <<-10, "relevant", None>>,
     <<80, "", None>>, <<80, "relevant", Some("sure")>>}

ValidRatings == {<<80, "relevant", Some("high")>>, <<30, "off topic", None>>}

SubmitReqs(ids, evaluators, ratings) ==
    {[api_key |-> None, evaluator |-> e, calibration_item_id |-> i,
      human_score |-> r[1], confidence |-> r[3], reasoning |-> r[2]] :
        i \in ids, e \in evaluators, r \in ratings}

InitDb ==
    /\ calibration_items = {}
    /\ human_evaluations = {}
    /\ ACITRACK_API_KEY = None
    /\ pc = [w \in Workers |-> None]
    /\ resp = NoResp
    /\ loop = NoLoop

\* ------------------------------------------------------------------ Spec: seed, next and submit, two evaluators
\* nothing has been called in main.py
\* a started process: nothing cached, an empty and reachable Drive folder
IdleDrive ==
    /\ artifact_cache = EmptyCache
    /\ drive = [list |-> "ok", files |-> [f \in FileNames |-> None], get_media |-> "ok"]
    /\ now = 0
    /\ artifact = NoArtifact
    /\ resolve = NoResolve
    /\ must = NoMust

IdleMain == rank = NoRank /\ rerank = None /\ norm = NoNorm /\ IdleDrive

\* nothing has been called in embeddings.py
IdleEmb ==
    /\ embtext = NoText
    /\ emb = NoEmb
    /\ backfill = NoBackfill
    /\ publication_embeddings = {}
    /\ chunk = NoChunk

Init == InitDb /\ IdleMain /\ IdleEmb

SpecPubs == {"p1", "p3", "p5"}

Next ==
    \/ \E p \in SpecPubs, t \in {None, Some([gold |-> JTrue])} :
          seed_calibration_items(SeedReq(<<p>>, t))
    \/ \E req \in NextReqs({"alice", "bob"}, Strategies) : get_next_item(req)
    \/ \E req \in SubmitReqs(ItemIdTexts(SpecPubs), {"alice", "bob"},
                              {<<80, "relevant", Some("high")>>}) :
          submit_evaluation(req)

Spec == Init /\ [][Next]_vars

\* ------------------------------------------------------------------ SpecSubmit: accepted and rejected submissions
NextSubmit ==
    \/ \E p \in {"p1", "p5"} : seed_calibration_items(SeedReq(<<p>>, None))
    \/ \E req \in SubmitReqs(ItemIdTexts({"p1", "p5"}), {"alice", "bob", ""}, Ratings) :
          submit_evaluation(req)

SpecSubmit == Init /\ [][NextSubmit]_vars

\* ------------------------------------------------------------------ SpecConc: submissions on two workers
NextConc ==
    \/ seed_calibration_items(SeedReq(<<"p1">>, None))
    \/ \E w \in Workers :
          \E req \in SubmitReqs(ItemIdTexts({"p1"}), {"alice", "bob"}, ValidRatings) :
             submit_begin(w, req)
    \/ \E w \in Workers : submit_commit(w)

SpecConc == Init /\ [][NextConc]_vars

\* ------------------------------------------------------------------ SpecSampler: one evaluator, items of every score and tag kind
SamplerSeeds ==
    {SeedReq(<<"p1">>, Some([gold |-> JFalse])),
     SeedReq(<<"p2">>, Some([gold |-> JTrue])),
     SeedReq(<<"p3">>, None),
     SeedReq(<<"p4">>, Some([gold |-> JStrTrue])),
     SeedReq(<<"p5">>, Some([gold |-> JTrue, topic |-> JStrBreast])),
     SeedReq(<<"p6">>, Some([topic |-> JStrBreast])),
     SeedReq(<<"p7">>, Some(EmptyDict))}

NextSampler ==
    \/ \E req \in SamplerSeeds : seed_calibration_items(req)
    \/ \E req \in NextReqs({"alice"}, Strategies \cup {"newest"}) : get_next_item(req)
    \/ \E req \in SubmitReqs(ItemIdTexts(Pubs), {"alice"}, {<<80, "relevant", Some("high")>>}) :
          submit_evaluation(req)

SpecSampler == Init /\ [][NextSampler]_vars

\* ------------------------------------------------------------------ SpecSeed: seed requests only
SeedTags ==
    {None, Some(EmptyDict), Some([gold |-> JTrue]), Some([gold |-> JFalse]),
     Some([topic |-> JStrBreast]), Some([gold |-> JTrue, topic |-> JStrBreast])}

NextSeed ==
    \E ids \in SeedLists({"p1", "p2"}), t \in SeedTags : seed_calibration_items(SeedReq(ids, t))

SpecSeed == Init /\ [][NextSeed]_vars

\* ------------------------------------------------------------------ SpecAuth: requests with and without a key
\* os.getenv("ACITRACK_API_KEY"): unset, set to the empty string, set to a secret
Secrets == {None, Some(""), Some("secret")}

\* what APIKeyHeader(auto_error=False) hands to the dependency: None for a request
\* without the header, else the header's value
Keys == {None, Some("secret"), Some("wrong")}

WithKey(req, k) == [req EXCEPT !.api_key = k]

InitAuth ==
    /\ calibration_items = {}
    /\ human_evaluations = {}
    /\ ACITRACK_API_KEY \in Secrets
    /\ pc = [w \in Workers |-> None]
    /\ resp = NoResp
    /\ loop = NoLoop
    /\ IdleMain
    /\ IdleEmb

AuthPubs == {"p1", "p3"}

NextAuth ==
    \/ \E p \in AuthPubs, k \in Keys : seed_calibration_items(WithKey(SeedReq(<<p>>, None), k))
    \/ \E req \in NextReqs({"alice"}, {"balanced"}), k \in Keys : get_next_item(WithKey(req, k))
    \/ \E req \in SubmitReqs(ItemIdTexts(AuthPubs), {"alice"}, {<<80, "relevant", Some("high")>>}),
          k \in Keys :
          submit_evaluation(WithKey(req, k))

SpecAuth == InitAuth /\ [][NextAuth]_vars

\* ------------------------------------------------------------------ SpecCache: artifact requests while the folder changes
InitCache == Init

NextCache == artifact_call \/ drive_change \/ drive_outage \/ tick

SpecCache == InitCache /\ [][NextCache]_vars

\* ------------------------------------------------------------------ SpecResolve: the resolver on drawn manifests and Drives
FileIds == {"id1", "id2"}

OutputPath == <<"outputs", "daily", "r1", "must_reads.json">>
RunFolderPath == <<"Daily", "r1", "must_reads.json">>
LocalPath == <<"data", "outputs", "daily", "r1", "must_reads_old.json">>
LegacyPath == <<"outputs", "daily", "r1", "must_reads_old.json">>
DrivePaths == {OutputPath, RunFolderPath, LegacyPath}

\* a file that cannot be downloaded, an empty file, a file with content of its own
Delivery(kind, name) ==
    IF kind = "raise" THEN <<"raise">> ELSE IF kind = "empty" THEN <<"ok", "">> ELSE <<"ok", name>>

PathName(path) ==
    IF path = OutputPath THEN "bytes of outputs/daily/r1/must_reads.json"
    ELSE IF path = RunFolderPath THEN "bytes of Daily/r1/must_reads.json"
    ELSE "bytes of outputs/daily/r1/must_reads_old.json"

Stores ==
    {[by_id |-> [i \in FileIds |-> Delivery(k[i], i)],
      by_path |-> [q \in DrivePaths |->
                      IF m[q] = "absent" THEN None ELSE Some(Delivery(m[q], PathName(q)))]] :
        k \in [FileIds -> {"raise", "empty", "ok"}],
        m \in [DrivePaths -> {"absent", "raise", "empty", "ok"}]}

PointerFileIds ==
    {None, Some(EmptyDict), Some([must_reads |-> "id1"]), Some([must_reads_json |-> "id2"]),
     Some([must_reads |-> "id1", must_reads_json |-> "id2"]), Some([report |-> "id1"])}

LatestRuns ==
    {[mode |-> "daily",
      run_id |-> "r1",
      manifest |-> [output_paths |-> lo[1], local_output_paths |-> lo[2],
                    drive_file_ids |-> mi, drive_output_paths |-> mp], latest_pointer |-> [drive_file_ids |-> pi, drive_output_paths |-> pp]] :
        pi \in PointerFileIds,
        mi \in {None, Some([must_reads |-> "id2"])},
        pp \in {None, Some([must_reads |-> OutputPath])},
        mp \in {None, Some([must_reads_json |-> OutputPath])},
        lo \in {<<None, None>>, <<Some([must_reads_json |-> LocalPath]), None>>,
                <<None, Some([must_reads_json |-> LocalPath])>>}}

InitResolve ==
    /\ InitDb
    /\ rank = NoRank /\ rerank = None /\ norm = NoNorm
    /\ artifact_cache = EmptyCache
    /\ drive = [list |-> "ok", files |-> [f \in FileNames |-> None], get_media |-> "ok"]
    /\ now = 0
    /\ artifact = NoArtifact
    /\ must = NoMust
    /\ IdleEmb
    /\ \E latest_run \in LatestRuns, store \in Stores, debug \in BOOLEAN :
          resolve = [out |-> None, store |-> store, file_key |-> "must_reads",
                     latest_run |-> Some(latest_run), debug |-> debug]

SpecResolve == InitResolve /\ [][resolve_call]_vars

\* ------------------------------------------------------------------ SpecMust: requests GET /api/must-reads on drawn files
\* raw records of a must-reads file: scores above 100 (an integer, a float, the float
\* 1e999), a score in range, a negative score, a record without a score
RawReads ==
    {[published_date |-> <<"str", "2023-06-01T12:00:00+00:00">>, relevancy_score |-> JInt(150),
      title |-> JStr(<<"a">>)],
     [published_date |-> <<"str", "2024-01-02T00:00:00Z">>, relevancy_score |-> <<"float", 200 * Scale + 1>>,
      title |-> JStr(<<"b">>)],
     [published_date |-> <<"str", "2024-01-02T00:00:00Z">>, relevancy_score |-> JInt(85),
      title |-> JStr(<<"c">>)],
     [relevancy_score |-> JInt(-10), title |-> JStr(<<"d">>)],
     [published_date |-> <<"str", "2024-01-02T00:00:00Z">>, title |-> JStr(<<"e">>)],
     [published_date |-> <<"str", "2023-06-01T12:00:00+00:00">>, relevancy_score |-> <<"inf">>,
      title |-> JStr(<<"f">>)]}

RawLists == UNION {[1..n -> RawReads] : n \in 0..MaxLen}

\* what the bytes of a must-reads file may encode: a list of records, a map with the
\* list and metadata, a map whose must_reads is null, a map without the key, a text, no JSON
Documents ==
    {<<"ok", <<"list", items>>>> : items \in RawLists}
    \cup {<<"ok", <<"dict", [must_reads |-> <<"list", items>>, generated_at |-> JStr(<<"2", "0", "2", "4">>)]>>>> :
             items \in {l \in RawLists : Len(l) <= 1}}
    \cup {<<"ok", <<"dict", [must_reads |-> JNull]>>>>,
          <<"ok", <<"dict", [generated_at |-> JStr(<<"2", "0", "2", "4">>)]>>>>,
          <<"ok", JStr(<<"h", "i">>)>>,
          <<"JSONDecodeError">>}

\* the run the latest pointer names, its must-reads file known by its Drive file id
MustRun ==
    [mode |-> "daily",
     run_id |-> "r1",
     manifest |-> [output_paths |-> None, local_output_paths |-> None,
                   drive_file_ids |-> None, drive_output_paths |-> None],
     latest_pointer |-> [drive_file_ids |-> Some([must_reads |-> "id1"]),
                         drive_output_paths |-> None]]

\* a Drive on which the file id1 is as told and nothing else is found
MustStore(kind) ==
    [by_id |-> [i \in FileIds |-> IF i = "id1" THEN Delivery(kind, i) ELSE <<"raise">>],
     by_path |-> [q \in DrivePaths |-> None]]

\* mode, what get_latest_run finds, what the download of the file gives
MustWorlds ==
    {<<"daily", <<"ok", MustRun>>, "ok">>,
     <<"daily", <<"ok", MustRun>>, "empty">>,
     <<"daily", <<"ok", MustRun>>, "raise">>,
     <<"daily", <<"raise", 503>>, "ok">>,
     <<"monthly", <<"ok", MustRun>>, "ok">>}

InitMust ==
    /\ InitDb
    /\ rank = NoRank /\ rerank = None /\ norm = NoNorm
    /\ artifact_cache = EmptyCache
    /\ drive = [list |-> "ok", files |-> [f \in FileNames |-> None], get_media |-> "ok"]
    /\ now = 0
    /\ artifact = NoArtifact
    /\ IdleEmb
    /\ \E world \in MustWorlds, document \in Documents, limit \in {1, 2}, min_relevance \in {0, 30},
          include_zero \in BOOLEAN, debug \in BOOLEAN :
          /\ resolve = [NoResolve EXCEPT !.store = MustStore(world[3])]
          /\ must = [limit |-> limit, min_relevance |-> min_relevance, include_zero |-> include_zero,
                     out |-> None, mode |-> world[1],
                     latest_run |-> world[2], debug |-> debug,
                     documents |-> [c \in {"id1"} |-> document]]

SpecMust == InitMust /\ [][get_must_reads]_vars

\* ------------------------------------------------------------------ SpecChunk: chunking of drawn item lists
MaxItems == 5
MaxBatch == 3

\* (id, text) tuples
ChunkItems == {<<"p1", "a">>, <<"p2", "b">>}

InitChunk ==
    /\ InitDb
    /\ IdleMain
    /\ embtext = NoText
    /\ emb = NoEmb
    /\ backfill = NoBackfill
    /\ publication_embeddings = {}
    /\ chunk \in [items : UNION {[1..n -> ChunkItems] : n \in 0..MaxItems},
                   max_batch_size : 1..MaxBatch,
                   out : {None}]

SpecChunk == InitChunk /\ [][chunk_call]_vars

\* ------------------------------------------------------------------ SpecLoop: one evaluator rates a fixed item set
\* scores in the buckets [0,20), [20,40) and [80,101), a null score, a score below 0
LoopPubs == {"p1", "p2", "p3", "p5", "p6"}

NextLoop ==
    \/ \E p \in LoopPubs : loop.phase = "seeding" /\ seed_calibration_items(SeedReq(<<p>>, None))
    \/ \E strategies \in {{"balanced"}, Strategies} : loop_start(strategies)
    \/ loop_next("alice")
    \/ loop_submit("alice")

SpecLoop == Init /\ [][NextLoop]_vars

\* the evaluator keeps going: a call of next or a rating that can be made is made
SpecLoopFair ==
    SpecLoop /\ WF_vars(loop_next("alice")) /\ WF_vars(loop_submit("alice"))

\* ------------------------------------------------------------------ SpecStats: statistics after seeds and ratings
StatsPubs == {"p1", "p5"}

StatsRatings == {<<5, "off topic", None>>, <<90, "relevant", Some("high")>>}

StatsReqs == {[api_key |-> None, evaluator |-> e] :
                 e \in {None, Some(""), Some("alice"), Some("bob"), Some("carol")}}

NextStats ==
    \/ \E p \in StatsPubs, t \in {None, Some([gold |-> JTrue])} :
          seed_calibration_items(SeedReq(<<p>>, t))
    \/ \E req \in SubmitReqs(ItemIdTexts(StatsPubs), {"alice", "bob"}, StatsRatings) :
          submit_evaluation(req)
    \/ \E req \in StatsReqs : get_stats(req)

SpecStats == Init /\ [][NextStats]_vars

\* ------------------------------------------------------------------ SpecRank: filter_and_sort_must_reads on drawn inputs
MustReads ==
    {[publication_id |-> "a", published_date |-> <<"str", "2024-01-02T00:00:00Z">>, relevancy_score |-> Some(85)],
     [publication_id |-> "b", published_date |-> <<"str", "2024-01-02T00:00:00Z">>, relevancy_score |-> Some(85)],
     [publication_id |-> "c", published_date |-> <<"str", "1965-03-01T00:00:00Z">>, relevancy_score |-> Some(85)],
     [publication_id |-> "d", published_date |-> <<"str", "garbage">>, relevancy_score |-> Some(85)],
     [publication_id |-> "e", published_date |-> <<"str", "2023-06-01T12:00:00+00:00">>, relevancy_score |-> Some(60)],
     [publication_id |-> "f", published_date |-> <<"absent">>, relevancy_score |-> Some(40)],
     [publication_id |-> "g", published_date |-> <<"str", "2024-01-02T00:00:00Z">>, relevancy_score |-> None],
     [publication_id |-> "h", published_date |-> <<"null">>, relevancy_score |-> None],
     [publication_id |-> "z", published_date |-> <<"str", "2023-06-01T12:00:00+00:00">>, relevancy_score |-> Some(0)],
     [publication_id |-> "n", published_date |-> <<"num", 1704153600>>, relevancy_score |-> Some(85)]}

InitRank ==
    /\ InitDb
    /\ rank \in [items : UNION {[1..n -> MustReads] : n \in 0..MaxLen},
                  min_relevance : {0, 60},
                  include_zero : BOOLEAN,
                  limit : {0, 1, 2, 5},
                  out : {None}]
    /\ rerank = None
    /\ norm = NoNorm
    /\ IdleEmb
    /\ IdleDrive

SpecRank == InitRank /\ [][rank_call]_vars

\* ------------------------------------------------------------------ SpecRerank: two calls on the same records
RerankReads == {r \in MustReads : r.publication_id \in {"a", "b", "c", "e", "g"}}

InitRerank ==
    /\ InitDb
    /\ rank \in [items : UNION {[1..n -> RerankReads] : n \in 0..MaxLen},
                  min_relevance : {0, 60},
                  include_zero : BOOLEAN,
                  limit : {1, 5},
                  out : {None}]
    /\ rerank = None
    /\ norm = NoNorm
    /\ IdleEmb
    /\ IdleDrive

NextRerank == rank_call \/ rank_permuted

SpecRerank == InitRerank /\ [][NextRerank]_vars

\* ------------------------------------------------------------------ SpecAgain: the ranking applied to its own output
NextAgain == rank_call \/ rank_again

SpecAgain == InitRerank /\ [][NextAgain]_vars

\* ------------------------------------------------------------------ SpecNorm: the normalizer on raw records
\* a key the raw record does not have
Absent == <<"absent">>

ScoreValues ==
    {Absent, JNull, JInt(85), JInt(0), JInt(150), JInt(-10),
     <<"float", 85 * Scale + 1>>, <<"float", -1>>, <<"nan">>, <<"inf">>, <<"bool", TRUE>>,
     JStr(<<"8", "5">>), JStr(<<" ", "7", " ">>), JStr(<<"-", "5">>), JStr(<<"8", ".", "5">>),
     JStr(<<>>), JStr(<<"h", "i">>), <<"list", <<>>>>, <<"dict", EmptyDict>>}

ReasonValues ==
    {Absent, JNull, JStr(<<>>), JStr(<<"a", " ", " ", "b">>), JStr(<<" ", "\n">>),
     JStr(<<"a", "\n", "b", " ">>), JInt(7), JInt(0)}

SignalValues ==
    {Absent, JNull, <<"list", <<>>>>, JStr(<<"x">>), <<"dict", [k \in {"trial"} |-> <<"bool", TRUE>>]>>}

\* credibility_score, credibility_reason and credibility_signals of a raw record
CredibilityValues ==
    {<<Absent, Absent, Absent>>,
     <<JInt(150), JStr(<<" ", "c">>), <<"list", <<>>>>>>,
     <<JStr(<<"h", "i">>), JNull, <<"dict", EmptyDict>>>>,
     <<<<"inf">>, Absent, Absent>>}

\* credibility_confidence, scored_at, scoring_version and scoring_model of a raw record
MetaValues ==
    {<<Absent, Absent, Absent, Absent>>,
     <<JStr(<<"l", "o", "w">>), JStr(<<"2", "0", "2", "4">>), JStr(<<"v", "2">>), JNull>>}

\* the raw record with the given values, without the absent keys
RawItem(score, reason, signals, cred, meta) ==
    LET full == [relevancy_score |-> score,
                 title |-> JStr(<<"t">>),
                 signals |-> signals,
                 relevancy_reason |-> reason,
                 credibility_score |-> cred[1],
                 credibility_reason |-> cred[2],
                 credibility_signals |-> cred[3],
                 credibility_confidence |-> meta[1],
                 scored_at |-> meta[2],
                 scoring_version |-> meta[3],
                 scoring_model |-> meta[4]]
    IN [f \in {g \in DOMAIN full : full[g] # Absent} |-> full[f]]

InitNorm ==
    /\ InitDb
    /\ rank = NoRank
    /\ rerank = None
    /\ IdleEmb
    /\ IdleDrive
    /\ \E score \in ScoreValues, reason \in ReasonValues, signals \in SignalValues,
          cred \in CredibilityValues, meta \in MetaValues :
          norm = [item |-> RawItem(score, reason, signals, cred, meta), out |-> None, again |-> None]

NextNorm == normalize_call \/ normalize_again

SpecNorm == InitNorm /\ [][NextNorm]_vars

\* ------------------------------------------------------------------ SpecText: build_embedding_text on drawn arguments
\* a text of n characters "r" with an "x" behind them
LongText(n) == [i \in 1..(n + 1) |-> IF i <= n THEN "r" ELSE "x"]

InitText ==
    /\ InitDb
    /\ IdleMain
    /\ emb = NoEmb
    /\ backfill = NoBackfill
    /\ publication_embeddings = {}
    /\ chunk = NoChunk
    /\ embtext \in [title : {None, Some(<<>>), Some(<<" ">>), Some(<<"T">>), Some(<<" ", "T", "\n">>)},
                     final_summary : {None, Some(<<>>), Some(<<" ">>), Some(<<"S", " ">>)},
                     source : {None, Some(<<" ">>), Some(<<" ", "J">>)},
                     evaluator_rationale : {None, Some(<<"\t">>), Some(<<"R">>),
                                            Some(<<" ">> \o LongText(RationaleCap))},
                     out : {None}]

SpecText == InitText /\ [][build_call]_vars

\* ------------------------------------------------------------------ SpecEmbed: embedding calls and the backfill
EmbedTexts == {<<"a">>, <<"b">>, <<" ">>, <<" ", "a">>}

\* publications with the titles given, in this order
Publications(titles) ==
    [i \in 1..Len(titles) |->
        [publication_id |-> <<"pub", i>>, title |-> titles[i], final_summary |-> None]]

InitEmbed ==
    /\ InitDb
    /\ IdleMain
    /\ IdleEmb

NextEmbed ==
    \/ \E texts \in UNION {[1..n -> EmbedTexts] : n \in 0..MaxLen}, client \in BOOLEAN :
          embed_start("batch", texts, client)
    \/ \E text \in EmbedTexts \cup {<<>>}, client \in BOOLEAN :
          embed_start("single", <<text>>, client)
    \/ \E titles \in UNION {[1..n -> {None, Some(<<"a">>), Some(<<" ">>), Some(<<"b">>)}] :
                              n \in 0..2} :
          process_batch_begin(Publications(titles))
    \/ embed_attempt
    \/ embed_backoff
    \/ process_batch_store

SpecEmbed == InitEmbed /\ [][NextEmbed]_vars

\* ================================================================== claims
\* evaluations stored for the pair (item, evaluator)
EvalsOf(item_id, evaluator) ==
    {e \in human_evaluations : e.calibration_item_id = item_id /\ e.evaluator = evaluator}

\* calibration items the evaluator has no stored evaluation for
Unrated(evaluator) ==
    {c \in calibration_items : EvalsOf(c.id, evaluator) = {}}

\* the reply in resp is a next reply that carries an item
NextReturned == resp.op = "next" /\ resp.status = 200 /\ resp.body # None

\* the calibration items whose identifier the next reply carries
Returned == {c \in calibration_items : uuid_str(c.id) = resp.body[1].calibration_item_id}

\* C1: a GET /calibration/next for evaluator E never returns an item for which a
\* HumanEvaluation by E is stored, under each of balanced, gold_first and random.
C1_Exclusion ==
    NextReturned =>
        \A e \in human_evaluations :
            e.evaluator = resp.req.evaluator =>
                uuid_str(e.calibration_item_id) # resp.body[1].calibration_item_id

\* next has returned an item to an evaluator who has already rated another item
C1_Witness ==
    /\ NextReturned
    /\ \E e \in human_evaluations : e.evaluator = resp.req.evaluator
    /\ \E e \in human_evaluations : e.evaluator # resp.req.evaluator
                                     /\ uuid_str(e.calibration_item_id) = resp.body[1].calibration_item_id

\* the request of the submit reply in resp names a stored pair
SubmitPairStored ==
    /\ resp.op = "submit"
    /\ UUID(resp.req.calibration_item_id) # None
    /\ EvalsOf(UUID(resp.req.calibration_item_id)[1], resp.req.evaluator) # {}

\* C2: when two submissions for one (evaluator, item) pair interleave, exactly one
\* HumanEvaluation is stored for the pair and the request that stored none gets 409.
C2_ConcurrentSubmit ==
    /\ \A c \in calibration_items : \A ev \in {"alice", "bob"} :
           Cardinality(EvalsOf(c.id, ev)) <= 1
    /\ (SubmitPairStored /\ resp.status # 200) => resp.status = 409

\* C3: a valid submit for a pair that already has a stored evaluation is answered 409
\* and leaves the stored evaluations as they are: one row for the pair, the first one.
C3_SequentialDuplicate ==
    [][(/\ resp'.op = "submit"
        /\ submit_valid(resp'.req)
        /\ UUID(resp'.req.calibration_item_id) # None
        /\ EvalsOf(UUID(resp'.req.calibration_item_id)[1], resp'.req.evaluator) # {})
       => (/\ resp'.status = 409
           /\ human_evaluations' = human_evaluations
           /\ Cardinality(EvalsOf(UUID(resp'.req.calibration_item_id)[1],
                                   resp'.req.evaluator)) = 1)]_vars

\* a 409 reply to a submission whose score differs from the stored one
C3_Witness ==
    /\ SubmitPairStored
    /\ resp.status = 409
    /\ \E e \in EvalsOf(UUID(resp.req.calibration_item_id)[1], resp.req.evaluator) :
          e.human_score # resp.req.human_score /\ e.reasoning # resp.req.reasoning

\* no calibration item has the identifier the text names
NoSuchItem(text) == \A c \in calibration_items : uuid_str(c.id) # text

BadRating(req) == req.reasoning = "" \/ req.human_score < 0 \/ req.human_score > 100

\* C4 as stated: a submit whose item identifier does not exist is answered 404, one with
\* empty reasoning or a score outside 0..100 is answered 422, and neither stores anything.
C4_AsStated ==
    [][resp'.op = "submit" =>
          /\ BadRating(resp'.req) =>
                (resp'.status = 422 /\ human_evaluations' = human_evaluations)
          /\ (submit_valid(resp'.req) /\ NoSuchItem(resp'.req.calibration_item_id)) =>
                (resp'.status = 404 /\ human_evaluations' = human_evaluations)]_vars

\* C4 as amended: 404 is the answer for a well-formed UUID that no item has; an
\* identifier that is no UUID is answered 400; empty reasoning or a score outside
\* 0..100 is answered 422; none of the three stores anything.
C4_RejectedSubmit ==
    [][resp'.op = "submit" =>
          /\ BadRating(resp'.req) =>
                (resp'.status = 422 /\ human_evaluations' = human_evaluations)
          /\ (submit_valid(resp'.req) /\ NoSuchItem(resp'.req.calibration_item_id)) =>
                /\ resp'.status = IF UUID(resp'.req.calibration_item_id) = None THEN 400 ELSE 404
                /\ human_evaluations' = human_evaluations
          /\ resp'.status \in {400, 404, 422} => human_evaluations' = human_evaluations]_vars

\* a 404 reply for an unknown identifier while evaluations are stored
C4_Witness ==
    /\ resp.op = "submit"
    /\ resp.status = 404
    /\ NoSuchItem(resp.req.calibration_item_id)
    /\ human_evaluations # {}

\* C5: under each strategy next returns none only when the evaluator has rated every
\* item; otherwise it returns one item the evaluator has not rated, whatever the
\* item's score (null, negative, above 100) and tags.
C5_NextTotal ==
    (resp.op = "next" /\ resp.status = 200) =>
        /\ (resp.body = None) <=> (Unrated(resp.req.evaluator) = {})
        /\ resp.body # None =>
              /\ Cardinality(Returned) = 1
              /\ Returned \subseteq Unrated(resp.req.evaluator)

\* balanced has returned the item with a negative score, the last one left
C5_Witness ==
    /\ NextReturned
    /\ resp.req.strategy = "balanced"
    /\ resp.body[1].final_relevancy_score = Some(-5 * Scale)
    /\ human_evaluations # {}

GoldTagIn(c, values) ==
    c.tags # None /\ "gold" \in DOMAIN c.tags[1] /\ c.tags[1]["gold"] \in values

GoldFirstReturned == NextReturned /\ resp.req.strategy = "gold_first"

ScoreClass(score, top, closed) ==
    IF score = None THEN 6
    ELSE LET v == score[1]
         IN IF v < 0 THEN 7
            ELSE IF v < 20 * Scale THEN 1
            ELSE IF v < 40 * Scale THEN 2
            ELSE IF v < 60 * Scale THEN 3
            ELSE IF v < 80 * Scale THEN 4
            ELSE IF v < top * Scale \/ (closed /\ v = top * Scale) THEN 5
            ELSE 7

BalancedReturned == NextReturned /\ resp.req.strategy = "balanced"

ItemsOfPub(items, pub_id) == {c \in items : c.publication_id = pub_id}

\* C8: every seed request with at least one id succeeds, leaves exactly one
\* CalibrationItem per id it lists, and replies seeded = the number of items it
\* created and seeded + skipped_existing = the number of ids it lists.
C8_SeedUpsert ==
    [][(resp'.op = "seed" /\ Len(resp'.req.publication_ids) >= 1) =>
          /\ resp'.status = 200
          /\ resp'.body[1].seeded = Cardinality(calibration_items') - Cardinality(calibration_items)
          /\ resp'.body[1].seeded + resp'.body[1].skipped_existing = Len(resp'.req.publication_ids)
          /\ \A i \in 1..Len(resp'.req.publication_ids) :
                Cardinality(ItemsOfPub(calibration_items', resp'.req.publication_ids[i])) = 1]_vars

\* C9: a successful seed of an id that already has an item leaves the item's other
\* fields as they are and makes its tags the old map overridden key by key by the
\* request tags; without request tags the item is unchanged.
C9_TagMerge ==
    [][(resp'.op = "seed" /\ resp'.status = 200) =>
          \A c \in calibration_items :
              (\E i \in 1..Len(resp'.req.publication_ids) :
                  resp'.req.publication_ids[i] = c.publication_id) =>
                  \E d \in calibration_items' :
                      /\ d.id = c.id
                      /\ d.publication_id = c.publication_id
                      /\ d.final_relevancy_score = c.final_relevancy_score
                      /\ d.tags = IF Truthy(resp'.req.tags)
                                  THEN Some(dict_update(IF c.tags = None THEN EmptyDict ELSE c.tags[1],
                                                        resp'.req.tags[1]))
                                  ELSE c.tags]_vars

Count(list, r) == Cardinality({i \in 1..Len(list) : list[i] = r})

\* the record passes the filter of the call in rank
Kept(r) ==
    \/ rank.include_zero
    \/ (r.relevancy_score # None /\ r.relevancy_score[1] >= rank.min_relevance)

\* C10: with include_zero false the output holds only records with a non-null score
\* >= min_relevance, and every such record of the input when the limit does not cut;
\* with include_zero true no record is dropped for its score.
C10_FilterStep ==
    rank.out # None =>
        /\ \A i \in 1..Len(rank.out[1]) : Kept(rank.out[1][i])
        /\ \A r \in MustReads : Count(rank.out[1], r) <= Count(rank.items, r)
        /\ Cardinality({i \in 1..Len(rank.items) : Kept(rank.items[i])}) <= rank.limit =>
              \A r \in MustReads : Kept(r) => Count(rank.out[1], r) = Count(rank.items, r)

\* scores 85, 40, null with min_relevance 60 have given exactly the 85-scored record
C10_Witness ==
    /\ rank.out # None
    /\ Len(rank.items) = 3
    /\ rank.items[1].relevancy_score = Some(85)
    /\ rank.items[2].relevancy_score = Some(40)
    /\ rank.items[3].relevancy_score = None
    /\ rank.min_relevance = 60 /\ ~rank.include_zero /\ rank.limit = 5
    /\ rank.out[1] = <<rank.items[1]>>

\* the largest prefix length the limit allows for n records
Min(a, b) == IF a < b THEN a ELSE b

\* the input records of the call in rank that pass its filter
KeptCount == Cardinality({i \in 1..Len(rank.items) : Kept(rank.items[i])})

\* C11: with include_zero true, every record of the output with a non-null
\* relevancy_score stands before every record with a null relevancy_score, and the
\* non-null scores are in non-increasing order.
C11_NullLast ==
    (rank.out # None /\ rank.include_zero) =>
        \A i, j \in 1..Len(rank.out[1]) :
            i < j =>
                LET a == rank.out[1][i].relevancy_score
                    b == rank.out[1][j].relevancy_score
                IN /\ a = None => b = None
                   /\ (a # None /\ b # None) => a[1] >= b[1]

\* a null-score record given ahead of a record with score 0 has come out behind it
C11_Witness ==
    /\ rank.out # None /\ rank.include_zero /\ rank.limit = 5
    /\ Len(rank.items) = 2
    /\ rank.items[1].relevancy_score = None
    /\ rank.items[2].relevancy_score = Some(0)
    /\ rank.out[1] = <<rank.items[2], rank.items[1]>>

\* C12: the output is the first `limit` records of the sorted filtered list: its
\* length is min(limit, number of records passing the filter), it is in key order, it
\* holds no record more often than the filtered input does, and no record left out
\* sorts strictly before a record that is in it.
C12_TruncateAfterSort ==
    rank.out # None =>
        LET out == rank.out[1]
        IN /\ Len(out) = Min(rank.limit, KeptCount)
           /\ \A i, j \in 1..Len(out) : i < j => ~key_less(sort_key(out[j]), sort_key(out[i]))
           /\ \A r \in MustReads :
                 /\ Count(out, r) <= Count(rank.items, r)
                 /\ Count(out, r) > 0 => Kept(r)
                 /\ (Kept(r) /\ Count(out, r) < Count(rank.items, r)) =>
                        \A i \in 1..Len(out) : ~key_less(sort_key(r), sort_key(out[i]))

\* three records pass the filter, the limit is 1, and the one record that comes out is
\* not the first of the input
C12_Witness ==
    /\ rank.out # None /\ rank.limit = 1
    /\ Len(rank.items) = 3 /\ KeptCount = 3
    /\ Len(rank.out[1]) = 1
    /\ rank.out[1][1] = rank.items[3]
    /\ rank.out[1][1] # rank.items[1]
    /\ key_less(sort_key(rank.items[3]), sort_key(rank.items[1]))

\* the records of a list that pass the filter of the call in rank and have the key k
Group(list, k) ==
    LET same(r) == Kept(r) /\ sort_key(r) = k
    IN SelectSeq(list, same)

\* two records of the input of the call in rank pass its filter, differ, and tie on the key
TieInInput ==
    \E i, j \in 1..Len(rank.items) :
        /\ rank.items[i] # rank.items[j]
        /\ Kept(rank.items[i]) /\ Kept(rank.items[j])
        /\ sort_key(rank.items[i]) = sort_key(rank.items[j])

\* C13 as stated: the output is a function of the multiset of input records and the
\* limit alone, so a second call on the same records in another order returns the same
\* sequence, ties included.
C13_AsStated ==
    rerank # None => rerank[1].out = rank.out[1]

\* C13: the output is a function of the input sequence, min_relevance, include_zero
\* and limit. Two calls on the same records in different orders return sequences of the
\* same length with the same (score, date) key at each position, and the same sequence
\* when the orders are equal or no two different records that pass the filter tie on the
\* key; records that tie come out in the order the call received them.
C13_Determinism ==
    rerank # None =>
        LET o1 == rank.out[1]
            o2 == rerank[1].out
        IN /\ Len(o1) = Len(o2)
           /\ \A i \in 1..Len(o1) : sort_key(o1[i]) = sort_key(o2[i])
           /\ (rerank[1].items = rank.items \/ ~TieInInput) => o1 = o2
           /\ \A i \in 1..Len(o2) :
                 LET k == sort_key(o2[i])
                 IN Group(o2, k) = SubSeq(Group(rerank[1].items, k), 1, Len(Group(o2, k)))

\* the records a, b (tied) and e in the orders a, b, e and e, b, a: the two outputs have
\* the same keys and differ in the order of the tied pair
C13_Witness ==
    /\ rerank # None
    /\ Len(rank.items) = 3
    /\ rank.items[1].publication_id = "a"
    /\ rank.items[2].publication_id = "b"
    /\ rank.items[3].publication_id = "e"
    /\ rerank[1].items = <<rank.items[3], rank.items[2], rank.items[1]>>
    /\ rank.limit = 5 /\ rank.min_relevance = 0
    /\ rank.out[1] = rank.items
    /\ rerank[1].out = <<rank.items[2], rank.items[1], rank.items[3]>>

\* the normalizer has returned the record it was given, normalized
NormReturned == norm.out # None /\ norm.out[1][1] = "ok"

\* a score field of a normalized record: null, or an integer in 0..100
ScoreInRange(v) == v = JNull \/ (v[1] = "int" /\ v[2] >= 0 /\ v[2] <= 100)

\* C14: for every raw record, normalize_must_read_item returns without raising a
\* record that has every expected field, with relevancy_score and credibility_score
\* each null or an integer in 0..100, a missing score null, and signals and
\* credibility_signals maps.
C14_NormalizerTotal ==
    norm.out # None =>
        /\ norm.out[1][1] = "ok"
        /\ LET item == norm.out[1][2]
           IN /\ ExpectedFields \subseteq DOMAIN item
              /\ ScoreInRange(item["relevancy_score"])
              /\ ScoreInRange(item["credibility_score"])
              /\ "relevancy_score" \notin DOMAIN norm.item => item["relevancy_score"] = JNull
              /\ "credibility_score" \notin DOMAIN norm.item => item["credibility_score"] = JNull
              /\ item["signals"][1] = "dict"
              /\ item["credibility_signals"][1] = "dict"

\* C15: a second pass of normalize_must_read_item over a record it has returned gives
\* that record back, field for field.
C15_Idempotent ==
    (NormReturned /\ norm.again # None) => norm.again[1] = norm.out[1]

\* a record whose score, reason and signals the first pass all changed has gone
\* through the second pass
C15_Witness ==
    /\ NormReturned /\ norm.again # None
    /\ get(norm.item, "relevancy_score") = JInt(150)
    /\ norm.out[1][2]["relevancy_score"] = JInt(100)
    /\ get(norm.item, "relevancy_reason") = JStr(<<"a", "\n", "b", " ">>)
    /\ norm.out[1][2]["relevancy_reason"] = JStr(<<"a", " ", "b">>)
    /\ get(norm.item, "signals") = <<"list", <<>>>>
    /\ norm.again[1][1] = "ok"

\* the text has no character that is not a blank
Blank(chars) == \A i \in 1..Len(chars) : IsSpace(chars[i])

\* the argument is missing or blank
Unset(x) == x = None \/ Blank(x[1])

\* C20: build_embedding_text raises for an empty or missing title; otherwise it returns
\* the title, then the summary if it is not blank, else the first 500 characters of the
\* rationale if that is not blank, then "Source: <source>" if the source is not blank,
\* joined in this order; the rationale is left out when a non-blank summary is given;
\* and the text returned for a title that is given is never blank.
C20_EmbeddingText ==
    embtext.out # None =>
        LET out == embtext.out[1]
            title == embtext.title
            middle == IF ~Unset(embtext.final_summary) THEN <<strip(embtext.final_summary[1])>>
                      ELSE IF ~Unset(embtext.evaluator_rationale)
                      THEN <<prefix(strip(embtext.evaluator_rationale[1]), RationaleCap)>>
                      ELSE <<>>
            tail == IF ~Unset(embtext.source)
                    THEN <<SourceLabel \o strip(embtext.source[1])>>
                    ELSE <<>>
        IN IF title = None \/ title[1] = <<>>
           THEN out[1] = "raise"
           ELSE /\ out[1] = "ok"
                /\ out[2] = join_parts(<<strip(title[1])>> \o middle \o tail)
                /\ ~Blank(out[2])

\* the call in emb has returned normally
EmbReturned == emb.result # None /\ emb.result[1][1] = "ok"

\* the call in emb has raised to its caller
EmbRaised == emb.result # None /\ emb.result[1][1] = "raise"

\* C16: generate_embeddings_batch returns for N input texts, blank ones included and
\* whatever the order of the provider's response items, N vectors of which the i-th is
\* the embedding of the i-th text; and every row process_batch has stored holds the
\* vector computed from the text of its own publication.
C16_BatchOrder ==
    /\ (emb.fn = "batch" /\ EmbReturned) =>
          /\ Len(emb.result[1][2]) = Len(emb.texts)
          /\ \A i \in 1..Len(emb.texts) : emb.result[1][2][i] = Embedding(strip(emb.texts[i]))
    /\ \A row \in publication_embeddings : row.embedding = Embedding(row.embedded_text)

\* C17: a call of generate_embedding or generate_embeddings_batch makes at most 3
\* attempts against the provider; the first attempt that succeeds is the last one and
\* the call returns its vectors; after 3 failed attempts the caller gets an
\* EmbeddingError, and a call that raises has raised an EmbeddingError after 3 attempts.
C17_RetryExhaustion ==
    /\ Len(emb.log) <= MaxAttempts
    /\ emb.attempt_number <= MaxAttempts
    /\ \A i \in 1..Len(emb.log) :
          emb.log[i] = "ok" => (i = Len(emb.log) /\ EmbReturned)
    /\ (EmbReturned /\ emb.texts # <<>>) =>
          /\ emb.log # <<>> /\ emb.log[Len(emb.log)] = "ok"
          /\ emb.fn = "batch" =>
                emb.result[1][2] = [i \in 1..Len(cleaned_texts(emb.texts)) |->
                                        Embedding(cleaned_texts(emb.texts)[i])]
          /\ emb.fn = "single" => emb.result[1][2] = Embedding(strip(emb.texts[1]))
    /\ (Len(emb.log) = MaxAttempts /\ \A i \in 1..MaxAttempts : emb.log[i] = "raise") =>
          emb.result = Some(<<"raise", "EmbeddingError">>)
    /\ EmbRaised =>
          /\ emb.result[1][2] = "EmbeddingError"
          /\ emb.attempt_number = MaxAttempts
          /\ \A i \in 1..Len(emb.log) : emb.log[i] = "raise"

\* a batch call whose three attempts at the provider all failed has raised to its caller
\* after two sleeps
C17_Witness ==
    /\ emb.fn = "batch"
    /\ EmbRaised
    /\ emb.log = <<"raise", "raise", "raise">>
    /\ emb.sleeps = 2

\* ------------------------------------------------------------------ C18
\* a secret is configured when the environment variable holds a non-empty value
Configured == ~falsy(ACITRACK_API_KEY)

\* the request served in this step left the tables as they were and its reply carries no row
Untouched == resp'.body = None /\ UNCHANGED <<calibration_items, human_evaluations>>

\* C18: with a secret configured, a request without the X-API-Key header is answered 401 and
\* one with another key 403, in both cases with the tables untouched and no stored data in
\* the reply; a request with the matching key, and every request when no secret is
\* configured, is answered by the handler (never 401 or 403)
C18_SharedSecret ==
    [][LET key == resp'.req.api_key
       IN /\ (Configured /\ key = None) => (resp'.status = 401 /\ Untouched)
          /\ (Configured /\ key # None /\ key # ACITRACK_API_KEY) =>
                (resp'.status = 403 /\ Untouched)
          /\ (~Configured \/ key = ACITRACK_API_KEY) => resp'.status \notin {401, 403}]_vars

\* C18: a request with a wrong key was rejected after one with the right key had seeded an item
C18_Witness ==
    /\ ACITRACK_API_KEY = Some("secret")
    /\ calibration_items # {}
    /\ resp.status = 403
    /\ resp.req.api_key = Some("wrong")

\* ------------------------------------------------------------------ C19
\* the folder the last request started from could deliver the file: both API calls answer
\* and the file exists
StoreDelivers ==
    /\ artifact.filename # None
    /\ artifact.store[1].list = "ok"
    /\ artifact.store[1].get_media = "ok"
    /\ artifact.store[1].files[artifact.filename[1]] # None

\* C19: whenever the file store is reachable and holds the file, the body of the response of
\* get_artifact_with_cache is the store's current content of the file
C19_FreshReads ==
    StoreDelivers =>
        /\ artifact.response.status = 200
        /\ artifact.response.content = artifact.store[1].files[artifact.filename[1]]

\* ------------------------------------------------------------------ C21
\* published_date is a string that datetime.fromisoformat parses
ParsesAsIso(published_date) ==
    published_date \in {<<"str", "2024-01-02T00:00:00Z">>, <<"str", "2023-06-01T12:00:00+00:00">>,
                        <<"str", "1965-03-01T00:00:00Z">>}

\* C21: among records of the output with equal relevancy score, every record whose
\* published_date parses as an ISO timestamp (dates before 1970 included) stands before
\* every record whose published_date is missing, null, no string or unparsable.
C21_BadDatesLast ==
    rank.out # None =>
        \A i, j \in 1..Len(rank.out[1]) :
            LET a == rank.out[1][i]
                b == rank.out[1][j]
            IN (/\ i < j
                /\ a.relevancy_score = b.relevancy_score
                /\ ParsesAsIso(b.published_date)) => ParsesAsIso(a.published_date)

\* ------------------------------------------------------------------ C22
\* C22: filter_and_sort_must_reads applied to its own output with the same min_relevance,
\* include_zero and limit returns that output unchanged, and the records of the output
\* with equal (relevancy score, published date) stand in their relative input order.
C22_StableIdempotent ==
    /\ rerank # None => (rerank[1].items = rank.out[1] /\ rerank[1].out = rank.out[1])
    /\ rank.out # None =>
          \A i \in 1..Len(rank.out[1]) :
              LET k == sort_key(rank.out[1][i])
                  g == Group(rank.out[1], k)
              IN g = SubSeq(Group(rank.items, k), 1, Len(g))

\* the tied records b and a given in this order behind e: they come out as b, a, e, and a
\* second pass over this output returns it
C22_Witness ==
    /\ rerank # None
    /\ Len(rank.items) = 3
    /\ rank.items[1].publication_id = "e"
    /\ rank.items[2].publication_id = "b"
    /\ rank.items[3].publication_id = "a"
    /\ rank.limit = 5
    /\ rank.out[1] = <<rank.items[2], rank.items[3], rank.items[1]>>
    /\ rerank[1].out = rank.out[1]

\* ------------------------------------------------------------------ C23
\* the call in emb cannot succeed whatever the provider does: no client can be made (no
\* API key), or the text is empty or blank, or the batch has texts and all are empty or blank
NonTransient ==
    /\ emb.fn # "none"
    /\ \/ ~emb.client
       \/ emb.fn = "single" /\ strip(emb.texts[1]) = <<>>
       \/ emb.fn = "batch" /\ emb.texts # <<>> /\ cleaned_texts(emb.texts) = <<>>

\* C23: a non-transient failure of an embedding call (no provider API key, or empty or
\* all-empty input text) reaches the caller on the first attempt: the call makes no
\* second attempt and no backoff wait.
C23_NoRetryOfNonTransient ==
    NonTransient =>
        /\ emb.attempt_number <= 1
        /\ ~emb.sleeping
        /\ emb.sleeps = 0
        /\ emb.attempt_number = 1 => EmbRaised

\* ------------------------------------------------------------------ C24
\* the last request asked Drive and the lookup, or the download of the file found, failed
DriveFailed ==
    /\ artifact.filename # None
    /\ ~artifact.cache_hit
    /\ \/ artifact.store[1].list # "ok"
       \/ /\ artifact.store[1].files[artifact.filename[1]] # None
          /\ artifact.store[1].get_media # "ok"

\* C24: when the Drive lookup or download inside get_artifact_with_cache fails with a
\* Drive API error, the response is the cached content with X-Cache-Status: stale if the
\* cache holds an entry for the filename (expired or not) and a 503 if it holds none, and
\* the cache is left as it was.
C24_StaleFallback ==
    DriveFailed =>
        LET filename == artifact.filename[1]
            cache == artifact.cache_before[1]
        IN /\ filename \in DOMAIN cache =>
                 /\ artifact.response.status = 200
                 /\ artifact.response.content = Some(cache[filename].content)
                 /\ <<"X-Cache-Status", "stale">> \in artifact.response.headers
           /\ filename \notin DOMAIN cache => artifact.response.status = 503
           /\ artifact_cache = cache

\* ------------------------------------------------------------------ C25
\* the place of a strategy in the priority chain
Priority(method) ==
    CASE method = "drive_file_id" -> 1
      [] method = "drive_output_path" -> 2
      [] method = "smart_folder_traversal" -> 3
      [] OTHER -> 4

\* the attempts of the call in resolve, in the order made: <<method, what the download gave>>
Attempts == resolve.out[1][IF resolve.out[1][1] = "ok" THEN 4 ELSE 3]

\* the attempts whose download succeeded
Succeeded == {i \in 1..Len(Attempts) : Attempts[i][2][1] = "ok"}

\* C25: resolve_and_get_output_file tries drive_file_ids, drive_output_paths, folder
\* traversal and legacy output_paths in this order; it returns the content delivered by
\* the first strategy whose download succeeds and attempts no strategy after it; with
\* debug set it reports that strategy as resolution_method; it raises 503 if and only if
\* every strategy fails.
C25_PriorityChain ==
    resolve.out # None =>
        /\ \A i, j \in 1..Len(Attempts) :
              i < j => Priority(Attempts[i][1]) <= Priority(Attempts[j][1])
        /\ \A i \in Succeeded : i = Len(Attempts)
        /\ (resolve.out[1][1] = "raise") <=> (Succeeded = {})
        /\ resolve.out[1][1] = "raise" => resolve.out[1][2] = 503
        /\ resolve.out[1][1] = "ok" =>
              LET first == Attempts[CHOOSE i \in Succeeded : \A j \in Succeeded : i <= j]
              IN /\ resolve.out[1][2] = first[2][2]
                 /\ resolve.debug =>
                       /\ resolve.out[1][3] # None
                       /\ resolve.out[1][3][1].resolution_method = first[1]
                 /\ ~resolve.debug => resolve.out[1][3] = None

\* ------------------------------------------------------------------ C26
\* the batches of a list, one after the other
RECURSIVE Concat(_)
Concat(batches) == IF batches = <<>> THEN <<>> ELSE Head(batches) \o Concat(Tail(batches))

\* C26: for an item list and max_batch_size >= 1, the batches chunk_texts_for_batching
\* returns give the input list when put one after the other; every batch is non-empty
\* and has at most max_batch_size items, every batch but the last has exactly
\* max_batch_size items, and an empty input gives no batches.
C26_Chunking ==
    chunk.out # None =>
        LET batches == chunk.out[1]
        IN /\ Concat(batches) = chunk.items
           /\ \A b \in 1..Len(batches) :
                 /\ Len(batches[b]) >= 1
                 /\ Len(batches[b]) <= chunk.max_batch_size
                 /\ b < Len(batches) => Len(batches[b]) = chunk.max_batch_size
           /\ chunk.items = <<>> => batches = <<>>

\* five items in batches of at most two: two full batches and a last batch of one
C26_Witness ==
    /\ chunk.out # None
    /\ Len(chunk.items) = 5 /\ chunk.max_batch_size = 2
    /\ Len(chunk.out[1]) = 3
    /\ Len(chunk.out[1][3]) = 1

\* ------------------------------------------------------------------ C27
\* the place of a score in the order of service: the five buckets, then null
\* scores, then scores outside every bucket
BucketIndex(score) ==
    CASE score = None -> 6
      [] score # None /\ score[1] >= 0 /\ score[1] < 20 * Scale -> 1
      [] score # None /\ score[1] >= 20 * Scale /\ score[1] < 40 * Scale -> 2
      [] score # None /\ score[1] >= 40 * Scale /\ score[1] < 60 * Scale -> 3
      [] score # None /\ score[1] >= 60 * Scale /\ score[1] < 80 * Scale -> 4
      [] score # None /\ score[1] >= 80 * Scale /\ score[1] < 101 * Scale -> 5
      [] OTHER -> 7

\* the items not served before the i-th call of next
NotServedBefore(i) ==
    {c \in calibration_items :
        \A j \in 1..(i - 1) : loop.served[j].calibration_item_id # uuid_str(c.id)}

LoopSafe ==
    /\ \A i \in 1..Len(loop.replies) : loop.replies[i] = 200
    /\ Len(loop.served) <= Cardinality(calibration_items)
    /\ loop.phase = "done" => Len(loop.replies) = Cardinality(calibration_items)

\* C28: for a fixed set of N calibration items and an evaluator who, under any strategy,
\* repeatedly calls next and submits a valid rating for the returned item, every
\* submission is accepted (never 409 or 404), next returns none after exactly N accepted
\* submissions, and this point is reached.
C28_LoopTerminates ==
    /\ []LoopSafe
    /\ (loop.phase = "running") ~> (loop.phase = "done")

\* three items, three accepted ratings under strategies of the evaluator's choice, and
\* next has returned none
C28_Witness ==
    /\ loop.strategies = Strategies
    /\ loop.phase = "done"
    /\ Cardinality(calibration_items) = 3
    /\ loop.replies = <<200, 200, 200>>
    /\ resp.op = "next" /\ resp.status = 200 /\ resp.body = None

\* ------------------------------------------------------------------ C29
\* the last request was GET /calibration/stats?evaluator=E and it was answered
StatsReturned ==
    /\ resp.op = "stats" /\ resp.status = 200
    /\ evaluator_given(resp.req.evaluator)

RECURSIVE SumOver(_, _)
SumOver(f, keys) ==
    IF keys = {} THEN 0
    ELSE LET k == CHOOSE x \in keys : TRUE IN f[k] + SumOver(f, keys \ {k})

\* C29: in every state reached by seed and submit operations, the `remaining` of
\* GET /calibration/stats?evaluator=E is the number of calibration items E has not rated
\* (so 0 <= remaining <= total_items, and remaining = 0 exactly when next for E returns
\* none), and the five distribution counters sum to total_rated.
C29_StatsAgree ==
    StatsReturned =>
        LET body == resp.body[1]
            E == resp.req.evaluator[1]
        IN /\ body.remaining = Cardinality(Unrated(E))
           /\ body.remaining >= 0 /\ body.remaining <= body.total_items
           /\ body.total_items = Cardinality(calibration_items)
           /\ (body.remaining = 0) <=> (\A strategy \in Strategies : next_candidates(E, strategy) = {})
           /\ DOMAIN body.distribution = DistributionKeys
           /\ SumOver(body.distribution, DistributionKeys) = body.total_rated

\* alice has rated one of two items and bob both: the statistics of alice show one item
\* remaining
C29_Witness ==
    /\ StatsReturned
    /\ resp.req.evaluator = Some("alice")
    /\ resp.body[1].total_items = 2
    /\ resp.body[1].total_rated = 1
    /\ resp.body[1].remaining = 1
    /\ Cardinality({e \in human_evaluations : e.evaluator = "bob"}) = 2

\* the records of a parsed file that holds a list of records
ItemsOf(parsed) ==
    IF parsed[1] = "ok" /\ extract_items(parsed[2])[1] = "ok"
                        /\ extract_items(parsed[2])[2][1] = "list"
    THEN Some(extract_items(parsed[2])[2][2])
    ELSE None

ItemsOfFile(resolved) == IF resolved[1] = "ok" THEN ItemsOf(json_loads(resolved[2])) ELSE None

ItemsOfRun(latest_run) ==
    IF latest_run[1] = "ok"
    THEN ItemsOfFile(resolve_and_get_output_file("must_reads", latest_run[2], must.debug))
    ELSE None

\* the records of the file the request was served from, when get_latest_run and the
\* resolver delivered a file that holds a list of records
FileItems == ItemsOfRun(get_latest_run(must.mode))

\* the must_reads list of a response 200
MustReturned == must.out[1].content[1]["must_reads"][2]

\* a raw score above 100: an integer, a float, the float infinity
ExceedsHundred(v) ==
    \/ v[1] = "int" /\ v[2] > 100
    \/ v[1] = "float" /\ v[2] > 100 * Scale
    \/ v[1] = "inf"

\* C30: a request GET /api/must-reads with include_zero = false, served from a file
\* with a list of records: every returned record has an integer relevancy_score with
\* min_relevance <= score <= 100, the list has at most limit records in non-increasing
\* score order, and a record of the file whose raw score exceeds 100 is returned with
\* score 100 (or the limit cut the list off before it, behind records of score 100).
C30_MustReadsOutput ==
    (must.out # None /\ ~must.include_zero /\ FileItems # None) =>
        /\ must.out[1].status = 200 =>
              /\ \A i \in 1..Len(MustReturned) :
                    LET score == MustReturned[i]["relevancy_score"]
                    IN score[1] = "int" /\ must.min_relevance <= score[2] /\ score[2] <= 100
              /\ Len(MustReturned) <= must.limit
              /\ \A i \in 1..Len(MustReturned) - 1 :
                    MustReturned[i]["relevancy_score"][2] >= MustReturned[i + 1]["relevancy_score"][2]
        /\ \A i \in 1..Len(FileItems[1]) :
              LET raw == FileItems[1][i]
              IN ExceedsHundred(get(raw, "relevancy_score")) =>
                    /\ must.out[1].status = 200
                    /\ \/ \E j \in 1..Len(MustReturned) :
                             /\ MustReturned[j]["title"] = raw["title"]
                             /\ MustReturned[j]["relevancy_score"] = JInt(100)
                       \/ /\ Len(MustReturned) = must.limit
                          /\ \A j \in 1..Len(MustReturned) :
                                MustReturned[j]["relevancy_score"] = JInt(100)

====
